---------------------------- MODULE Spec2Model ----------------------------
(***************************************************************************)
(* The synthetic restaurant generator and the aggregate analyzer of        *)
(* comprehensive_restaurant_scraper.py, as state machines.                  *)
(*                                                                         *)
(* Numbers.  The program computes with floats; the model computes with     *)
(* integers in fixed units:                                                *)
(*   - a table rating range is in tenths (3.5 is 35), a record's rating    *)
(*     (the value after round(x, 1)) is in tenths too;                     *)
(*   - a table coordinate range is in hundredths of a degree (18.47 is     *)
(*     1847), a record's coordinate is in millionths of a degree;          *)
(*   - a price weight is in tenths (0.4 is 4);                             *)
(*   - one outcome of the random source is an integer u in 0..9999 that    *)
(*     stands for the float u/10000 of random.random(), and for the        *)
(*     integer RandBelow(n, u) of an integer draw below n.                 *)
(* Strings are the source's strings, a character outside ASCII written    *)
(* [U+XXXX] with its code point; a value that may be None is a sequence    *)
(* of length at most one (<<>> is None).                                   *)
(***************************************************************************)
EXTENDS Integers, Sequences, FiniteSets, TLC

(***************************************************************************)
(* Bounds of the model.                                                    *)
(***************************************************************************)
\* The most records one generation run of the model produces: the counts of
\* the neighborhood table are scaled down so that they sum to at most this.
MaxRecords == 3

\* The most rows of the neighborhood table one run of the model loops over.
MaxRows == 2

\* The longest list analyze_restaurants is called with.
MaxInput == 3

\* The most calls of scrape_businesses, and of close(), in one with-block.
MaxCalls == 2

\* The most pieces a text given to clean_text is made of.
MaxPieces == 3

\* The most listings a result page of the model has.
MaxListings == 3

\* The largest max_retries given to retry_with_backoff.
MaxRetries == 3

\* The most rows the businesses table holds.
MaxStored == 2

\* The most targets of a scraping job, and the most business types of a
\* target.
MaxTargets == 2
MaxTypes == 2

\* The most calls of add_scraping_target and remove_scraping_target during
\* one job.
MaxEdits == 2

\* The most turns of the polling loop of start().
MaxPolls == 3

(***************************************************************************)
(* The reference tables of _generate_500_restaurants and the phrase banks  *)
(* of _generate_spanish_reviews.  A name template "X {name}" is kept as    *)
(* its text before the placeholder; a review phrase f-string as the text   *)
(* before and after {base_phrase}, with whether .lower() is applied.       *)
(***************************************************************************)
builtin_neighborhoods ==
  <<
    [name |-> "Zona Colonial", lat_range |-> <<1847, 1848>>, lng_range |-> <<-6989, -6988>>, count |-> 80],
    [name |-> "Piantini", lat_range |-> <<1845, 1846>>, lng_range |-> <<-6995, -6994>>, count |-> 70],
    [name |-> "Naco", lat_range |-> <<1844, 1845>>, lng_range |-> <<-6996, -6995>>, count |-> 60],
    [name |-> "Bella Vista", lat_range |-> <<1846, 1847>>, lng_range |-> <<-6993, -6992>>, count |-> 50],
    [name |-> "Gazcue", lat_range |-> <<1848, 1849>>, lng_range |-> <<-6991, -6990>>, count |-> 40],
    [name |-> "Villa Consuelo", lat_range |-> <<1849, 1850>>, lng_range |-> <<-6990, -6989>>, count |-> 35],
    [name |-> "Los Prados", lat_range |-> <<1850, 1851>>, lng_range |-> <<-6989, -6988>>, count |-> 30],
    [name |-> "Ensanche Naco", lat_range |-> <<1843, 1844>>, lng_range |-> <<-6997, -6996>>, count |-> 25],
    [name |-> "Mirador Norte", lat_range |-> <<1852, 1853>>, lng_range |-> <<-6988, -6987>>, count |-> 20],
    [name |-> "Mirador Sur", lat_range |-> <<1842, 1843>>, lng_range |-> <<-6998, -6997>>, count |-> 20],
    [name |-> "Villa Mella", lat_range |-> <<1854, 1855>>, lng_range |-> <<-6987, -6986>>, count |-> 15],
    [name |-> "Santo Domingo Este", lat_range |-> <<1848, 1849>>, lng_range |-> <<-6985, -6984>>, count |-> 15],
    [name |-> "Santo Domingo Norte", lat_range |-> <<1855, 1856>>, lng_range |-> <<-6986, -6985>>, count |-> 10],
    [name |-> "Santo Domingo Oeste", lat_range |-> <<1841, 1842>>, lng_range |-> <<-6999, -6998>>, count |-> 10],
    [name |-> "Boca Chica", lat_range |-> <<1835, 1836>>, lng_range |-> <<-6960, -6959>>, count |-> 20]
  >>

builtin_cuisine_types ==
  <<
    [name |-> "Dominican", price_dist |-> <<<<"$", 4>>, <<"$$", 4>>, <<"$$$", 2>>>>, rating_range |-> <<35, 48>>],
    [name |-> "International", price_dist |-> <<<<"$", 1>>, <<"$$", 3>>, <<"$$$", 4>>, <<"$$$$", 2>>>>, rating_range |-> <<38, 49>>],
    [name |-> "Italian", price_dist |-> <<<<"$", 2>>, <<"$$", 5>>, <<"$$$", 3>>>>, rating_range |-> <<37, 47>>],
    [name |-> "Chinese", price_dist |-> <<<<"$", 6>>, <<"$$", 3>>, <<"$$$", 1>>>>, rating_range |-> <<34, 45>>],
    [name |-> "Japanese", price_dist |-> <<<<"$", 1>>, <<"$$", 3>>, <<"$$$", 4>>, <<"$$$$", 2>>>>, rating_range |-> <<39, 49>>],
    [name |-> "Mexican", price_dist |-> <<<<"$", 5>>, <<"$$", 4>>, <<"$$$", 1>>>>, rating_range |-> <<36, 46>>],
    [name |-> "American", price_dist |-> <<<<"$", 3>>, <<"$$", 5>>, <<"$$$", 2>>>>, rating_range |-> <<35, 47>>],
    [name |-> "Fusion", price_dist |-> <<<<"$", 2>>, <<"$$", 4>>, <<"$$$", 3>>, <<"$$$$", 1>>>>, rating_range |-> <<38, 48>>],
    [name |-> "Seafood", price_dist |-> <<<<"$", 2>>, <<"$$", 4>>, <<"$$$", 3>>, <<"$$$$", 1>>>>, rating_range |-> <<37, 48>>],
    [name |-> "Fast Food", price_dist |-> <<<<"$", 8>>, <<"$$", 2>>>>, rating_range |-> <<32, 44>>],
    [name |-> "Mediterranean", price_dist |-> <<<<"$", 2>>, <<"$$", 5>>, <<"$$$", 3>>>>, rating_range |-> <<38, 47>>],
    [name |-> "Asian", price_dist |-> <<<<"$", 3>>, <<"$$", 4>>, <<"$$$", 3>>>>, rating_range |-> <<36, 46>>],
    [name |-> "French", price_dist |-> <<<<"$", 1>>, <<"$$", 3>>, <<"$$$", 4>>, <<"$$$$", 2>>>>, rating_range |-> <<40, 49>>],
    [name |-> "Steakhouse", price_dist |-> <<<<"$", 1>>, <<"$$", 3>>, <<"$$$", 4>>, <<"$$$$", 2>>>>, rating_range |-> <<38, 48>>],
    [name |-> "Pizza", price_dist |-> <<<<"$", 6>>, <<"$$", 3>>, <<"$$$", 1>>>>, rating_range |-> <<33, 45>>]
  >>

builtin_name_templates ==
  <<
    "Restaurante ", "El ", "La ", "Casa ",
    "Mes[U+221A][U+2265]n ", "Caf[U+221A][U+00A9] ", "Bar ", "Comedor ",
    "Cocina ", "Sabor ", "Rinc[U+221A][U+2265]n ", "Parador ",
    "Rancho ", "Fonda ", "Cantina "
  >>

builtin_name_parts ==
  <<
    "Adrian", "Bari", "Conde", "Palo",
    "Jalao", "Mitre", "Tropical", "Colonial",
    "Hist[U+221A][U+2265]rico", "Marina", "Plaza", "Central",
    "Nuevo", "Viejo", "Grande", "Peque[U+221A][U+00B1]o",
    "Familiar", "Elegante", "Moderno", "Tradicional",
    "Especial", "[U+221A][U+00F6]nico", "Dorado", "Plateado",
    "Azul", "Rojo", "Verde", "Blanco",
    "Negro", "Amarillo", "Rosa", "Morado",
    "Naranja", "Caf[U+221A][U+00A9]", "Chocolate", "Vainilla",
    "Fresa", "Mango", "Pi[U+221A][U+00B1]a", "Coco",
    "Limon", "Naranja", "Uva", "Manzana",
    "Pera", "Durazno", "Criollo", "T[U+221A][U+2260]pico",
    "Dominicano", "Quisqueya", "Taino", "Caribe[U+221A][U+00B1]o",
    "Tropical", "Isle[U+221A][U+00B1]o", "Boh[U+221A][U+2260]o", "Casa",
    "Hogar", "Familia", "Abuela", "Mam[U+221A][U+00B0]",
    "Pap[U+221A][U+00B0]", "Hermano", "Primo", "T[U+221A][U+2260]o",
    "Santo", "Domingo", "Cristo", "Mar[U+221A][U+2260]a",
    "Jos[U+221A][U+00A9]", "Pedro", "Juan", "Carlos",
    "Miguel", "Luis", "Ana", "Carmen",
    "Rosa", "Isabel", "Elena", "Patricia",
    "Sandra", "M[U+221A][U+2265]nica", "Laura", "Sofia",
    "Malec[U+221A][U+2265]n", "Zona", "Colonial", "Ciudad",
    "Capital", "Rep[U+221A][U+222B]blica", "Dominicana", "Quisqueya",
    "Taino", "Caribe", "Antillas", "Isla",
    "Tierra", "Sol", "Mar", "Playa",
    "Monta[U+221A][U+00B1]a", "Valle", "R[U+221A][U+2260]o", "Lago",
    "Puerto", "Bah[U+221A][U+2260]a", "Costa", "Pen[U+221A][U+2260]nsula",
    "Cabo", "Punta", "Islote", "Cayito"
  >>

street_names ==
  <<
    "Calle", "Avenida", "Boulevard", "Carrera",
    "V[U+221A][U+2260]a", "Carretera", "Callej[U+221A][U+2265]n", "Pasaje",
    "Callej[U+221A][U+2265]n", "Plaza", "Esquina", "Rinc[U+221A][U+2265]n",
    "Cuesta", "Subida", "Bajada", "Entrada"
  >>

street_suffixes ==
  <<
    "", "Norte", "Sur", "Este",
    "Oeste", "Central", "Principal", "Secundaria",
    "Nueva", "Vieja"
  >>

all_features ==
  <<
    "Outdoor Seating", "Live Music", "Parking Available", "WiFi Available",
    "Family Friendly", "Pet Friendly", "Takeout Available", "Delivery Available",
    "Bar Available", "Private Dining", "Wheelchair Accessible", "Valet Parking",
    "Happy Hour", "Late Night", "Brunch", "Dessert Menu",
    "Wine List", "Cocktail Bar", "Dance Floor", "Pool Table",
    "TV Available"
  >>

review_keywords ==
  <<
    "excelente comida", "muy bueno", "delicioso", "sabor aut[U+221A][U+00A9]ntico",
    "buen servicio", "ambiente agradable", "precio justo", "recomendado",
    "comida fresca", "atendimiento amable", "lugar c[U+221A][U+2265]modo", "muy rico",
    "calidad excelente", "sabor incre[U+221A][U+2260]ble", "muy recomendable", "perfecto",
    "comida tradicional", "ambiente familiar", "muy sabroso", "excelente",
    "comida criolla", "sabor dominicano", "muy t[U+221A][U+2260]pico", "como en casa",
    "comida casera", "sabor de la abuela", "muy dominicano", "aut[U+221A][U+00A9]ntico sabor",
    "comida del pa[U+221A][U+2260]s", "sabor caribe[U+221A][U+00B1]o", "muy bueno el servicio", "ambiente dominicano",
    "comida tradicional dominicana", "sabor de Quisqueya", "muy rico el plato", "comida t[U+221A][U+2260]pica",
    "sabor isle[U+221A][U+00B1]o", "muy bueno todo", "ambiente criollo"
  >>

opening_hours_options ==
  <<
    "6:00 AM - 10:00 PM", "7:00 AM - 11:00 PM", "8:00 AM - 9:00 PM",
    "11:00 AM - 11:00 PM", "12:00 PM - 10:00 PM", "6:00 PM - 12:00 AM",
    "24 Hours"
  >>

positive_phrases ==
  <<
    [prefix |-> "", lower |-> FALSE, suffix |-> ", muy recomendado"],
    [prefix |-> "Excelente ", lower |-> TRUE, suffix |-> ", ambiente agradable"],
    [prefix |-> "Muy buena ", lower |-> TRUE, suffix |-> ", servicio r[U+221A][U+00B0]pido"],
    [prefix |-> "Deliciosa ", lower |-> TRUE, suffix |-> ", porciones generosas"],
    [prefix |-> "Fant[U+221A][U+00B0]stica ", lower |-> TRUE, suffix |-> ", precio justo"],
    [prefix |-> "Incre[U+221A][U+2260]ble ", lower |-> TRUE, suffix |-> ", atenci[U+221A][U+2265]n al cliente excelente"],
    [prefix |-> "Maravillosa ", lower |-> TRUE, suffix |-> ", ambiente perfecto"],
    [prefix |-> "Excepcional ", lower |-> TRUE, suffix |-> ", muy aut[U+221A][U+00A9]ntico"],
    [prefix |-> "Extraordinaria ", lower |-> TRUE, suffix |-> ", calidad excepcional"],
    [prefix |-> "Magn[U+221A][U+2260]fica ", lower |-> TRUE, suffix |-> ", experiencia [U+221A][U+222B]nica"]
  >>

neutral_phrases ==
  <<
    [prefix |-> "Buena ", lower |-> TRUE, suffix |-> ", servicio regular"],
    [prefix |-> "Decente ", lower |-> TRUE, suffix |-> ", precio aceptable"],
    [prefix |-> "Normal ", lower |-> TRUE, suffix |-> ", nada especial"],
    [prefix |-> "Est[U+221A][U+00B0]ndar ", lower |-> TRUE, suffix |-> ", cumple expectativas"],
    [prefix |-> "Regular ", lower |-> TRUE, suffix |-> ", podr[U+221A][U+2260]a mejorar"]
  >>

negative_phrases ==
  <<
    [prefix |-> "Regular ", lower |-> TRUE, suffix |-> ", servicio lento"],
    [prefix |-> "Discreta ", lower |-> TRUE, suffix |-> ", precio alto"],
    [prefix |-> "Mediocre ", lower |-> TRUE, suffix |-> ", no volver[U+221A][U+2260]a"],
    [prefix |-> "Deficiente ", lower |-> TRUE, suffix |-> ", atenci[U+221A][U+2265]n mala"],
    [prefix |-> "Pobre ", lower |-> TRUE, suffix |-> ", no recomendado"]
  >>

reviewers ==
  <<
    "Mar[U+221A][U+2260]a Gonz[U+221A][U+00B0]lez", "Carlos Rodr[U+221A][U+2260]guez", "Ana L[U+221A][U+2265]pez", "Roberto Mart[U+221A][U+2260]nez",
    "Isabel Cruz", "Miguel [U+221A][U+00C5]ngel", "Patricia Vega", "Diego L[U+221A][U+2265]pez",
    "Rosa Mar[U+221A][U+2260]a", "Antonio Blanco", "Elena Fern[U+221A][U+00B0]ndez", "Luis P[U+221A][U+00A9]rez",
    "Carmen S[U+221A][U+00B0]nchez", "Roberto M[U+221A][U+00A9]ndez", "Isabel Castillo", "Carlos Mendoza",
    "Ana Patricia", "Miguel Silva", "Patricia Luna", "Diego Ram[U+221A][U+2260]rez"
  >>

Lower(s) ==
  CASE s = "Colonial 2" -> "colonial 2"
    [] s = "Adrian" -> "adrian"
    [] s = "Bari" -> "bari"
    [] s = "Conde" -> "conde"
    [] s = "Palo" -> "palo"
    [] s = "Jalao" -> "jalao"
    [] s = "Mitre" -> "mitre"
    [] s = "Tropical" -> "tropical"
    [] s = "Colonial" -> "colonial"
    [] s = "Hist[U+221A][U+2265]rico" -> "hist[U+221A][U+2265]rico"
    [] s = "Marina" -> "marina"
    [] s = "Plaza" -> "plaza"
    [] s = "Central" -> "central"
    [] s = "Nuevo" -> "nuevo"
    [] s = "Viejo" -> "viejo"
    [] s = "Grande" -> "grande"
    [] s = "Peque[U+221A][U+00B1]o" -> "peque[U+221A][U+00B1]o"
    [] s = "Familiar" -> "familiar"
    [] s = "Elegante" -> "elegante"
    [] s = "Moderno" -> "moderno"
    [] s = "Tradicional" -> "tradicional"
    [] s = "Especial" -> "especial"
    [] s = "Dorado" -> "dorado"
    [] s = "Plateado" -> "plateado"
    [] s = "Azul" -> "azul"
    [] s = "Rojo" -> "rojo"
    [] s = "Verde" -> "verde"
    [] s = "Blanco" -> "blanco"
    [] s = "Negro" -> "negro"
    [] s = "Amarillo" -> "amarillo"
    [] s = "Rosa" -> "rosa"
    [] s = "Morado" -> "morado"
    [] s = "Naranja" -> "naranja"
    [] s = "Caf[U+221A][U+00A9]" -> "caf[U+221A][U+00A9]"
    [] s = "Chocolate" -> "chocolate"
    [] s = "Vainilla" -> "vainilla"
    [] s = "Fresa" -> "fresa"
    [] s = "Mango" -> "mango"
    [] s = "Pi[U+221A][U+00B1]a" -> "pi[U+221A][U+00B1]a"
    [] s = "Coco" -> "coco"
    [] s = "Limon" -> "limon"
    [] s = "Uva" -> "uva"
    [] s = "Manzana" -> "manzana"
    [] s = "Pera" -> "pera"
    [] s = "Durazno" -> "durazno"
    [] s = "Criollo" -> "criollo"
    [] s = "T[U+221A][U+2260]pico" -> "t[U+221A][U+2260]pico"
    [] s = "Dominicano" -> "dominicano"
    [] s = "Quisqueya" -> "quisqueya"
    [] s = "Taino" -> "taino"
    [] s = "Caribe[U+221A][U+00B1]o" -> "caribe[U+221A][U+00B1]o"
    [] s = "Isle[U+221A][U+00B1]o" -> "isle[U+221A][U+00B1]o"
    [] s = "Boh[U+221A][U+2260]o" -> "boh[U+221A][U+2260]o"
    [] s = "Casa" -> "casa"
    [] s = "Hogar" -> "hogar"
    [] s = "Familia" -> "familia"
    [] s = "Abuela" -> "abuela"
    [] s = "Mam[U+221A][U+00B0]" -> "mam[U+221A][U+00B0]"
    [] s = "Pap[U+221A][U+00B0]" -> "pap[U+221A][U+00B0]"
    [] s = "Hermano" -> "hermano"
    [] s = "Primo" -> "primo"
    [] s = "T[U+221A][U+2260]o" -> "t[U+221A][U+2260]o"
    [] s = "Santo" -> "santo"
    [] s = "Domingo" -> "domingo"
    [] s = "Cristo" -> "cristo"
    [] s = "Mar[U+221A][U+2260]a" -> "mar[U+221A][U+2260]a"
    [] s = "Jos[U+221A][U+00A9]" -> "jos[U+221A][U+00A9]"
    [] s = "Pedro" -> "pedro"
    [] s = "Juan" -> "juan"
    [] s = "Carlos" -> "carlos"
    [] s = "Miguel" -> "miguel"
    [] s = "Luis" -> "luis"
    [] s = "Ana" -> "ana"
    [] s = "Carmen" -> "carmen"
    [] s = "Isabel" -> "isabel"
    [] s = "Elena" -> "elena"
    [] s = "Patricia" -> "patricia"
    [] s = "Sandra" -> "sandra"
    [] s = "M[U+221A][U+2265]nica" -> "m[U+221A][U+2265]nica"
    [] s = "Laura" -> "laura"
    [] s = "Sofia" -> "sofia"
    [] s = "Malec[U+221A][U+2265]n" -> "malec[U+221A][U+2265]n"
    [] s = "Zona" -> "zona"
    [] s = "Ciudad" -> "ciudad"
    [] s = "Capital" -> "capital"
    [] s = "Rep[U+221A][U+222B]blica" -> "rep[U+221A][U+222B]blica"
    [] s = "Dominicana" -> "dominicana"
    [] s = "Caribe" -> "caribe"
    [] s = "Antillas" -> "antillas"
    [] s = "Isla" -> "isla"
    [] s = "Tierra" -> "tierra"
    [] s = "Sol" -> "sol"
    [] s = "Mar" -> "mar"
    [] s = "Playa" -> "playa"
    [] s = "Monta[U+221A][U+00B1]a" -> "monta[U+221A][U+00B1]a"
    [] s = "Valle" -> "valle"
    [] s = "R[U+221A][U+2260]o" -> "r[U+221A][U+2260]o"
    [] s = "Lago" -> "lago"
    [] s = "Puerto" -> "puerto"
    [] s = "Bah[U+221A][U+2260]a" -> "bah[U+221A][U+2260]a"
    [] s = "Costa" -> "costa"
    [] s = "Pen[U+221A][U+2260]nsula" -> "pen[U+221A][U+2260]nsula"
    [] s = "Cabo" -> "cabo"
    [] s = "Punta" -> "punta"
    [] s = "Islote" -> "islote"
    [] s = "Cayito" -> "cayito"
    [] s = "sabor de Quisqueya" -> "sabor de quisqueya"
    [] OTHER -> s

(***************************************************************************)
(* The random module.  Each operator takes the outcome u of the random     *)
(* source it consumes.                                                     *)
(***************************************************************************)
\* _randbelow(n): an integer in 0..n-1.
RandBelow(n, u) == (n * u) \div 10000

\* random.choice(seq): seq[_randbelow(len(seq))]; IndexError on an empty seq.
Choice(seq, u) == seq[1 + RandBelow(Len(seq), u)]

\* random.randint(a, b): a + _randbelow(b - a + 1); ValueError when b < a.
RandInt(a, b, u) == a + RandBelow(b - a + 1, u)

\* random.uniform(a, b): a + (b - a) * random().  a and b are multiples of
\* 10000 units, so the product is exact.
Uniform(a, b, u) == a + ((b - a) * u) \div 10000

\* itertools.accumulate(weights)[k-1] of a distribution <<<<key, weight>>, ...>>.
RECURSIVE CumWeight(_, _)
CumWeight(dist, k) ==
  IF k = 0 THEN 0 ELSE CumWeight(dist, k - 1) + dist[k][2]

\* random.choices(keys, weights=values)[0]:
\* keys[bisect(cum_weights, random() * total, 0, n - 1)].  cum_weights and
\* total are doubles.  The sums of the weights 0.6, 0.3, 0.1 are 0.6,
\* 0.8999999999999999 and 0.9999999999999999, so that at random() = 0.6 the
\* product random() * total is 0.5999999999999999, below cum_weights[0]; at
\* every other boundary of the built-in distributions the product is at
\* least the cumulative weight, as in exact arithmetic.
Choices(dist, u) ==
  LET n == Len(dist)
      total == CumWeight(dist, n)
      weights == [k \in 1..n |-> dist[k][2]]
      short(k) == weights = <<6, 3, 1>> /\ k = 1
      below == {k \in 1..(n - 1) :
                  \/ CumWeight(dist, k) * 10000 < u * total
                  \/ /\ CumWeight(dist, k) * 10000 = u * total
                     /\ ~short(k)}
  IN  dist[Cardinality(below) + 1][1]

\* random.choices raises IndexError on an empty population and ValueError
\* when the weights do not sum to more than zero.
ChoicesRaises(dist) == Len(dist) = 0 \/ CumWeight(dist, Len(dist)) <= 0

\* random.sample(population, k), pool branch (n <= setsize, which holds for
\* 21 features and k <= 6): the i-th pick takes pool[j], j = _randbelow(n-i),
\* and moves the last live entry of the pool into the hole.
RECURSIVE SamplePool(_, _, _, _)
SamplePool(pool, k, us, i) ==
  IF i = k THEN <<>>
  ELSE LET n == Len(pool)
           j == 1 + RandBelow(n - i, us[i + 1])
       IN  <<pool[j]>> \o SamplePool([pool EXCEPT ![j] = pool[n - i]], k, us, i + 1)

Sample(population, k, us) == SamplePool(population, k, us, 0)

\* round(x, 1) of a double that lies between k and k + 1 tenths and whose
\* decimal value is the tie k + 1/2 tenths.  side tells where the double
\* itself lies: below the tie (-1), above it (1), or on it (0), and then
\* round() takes the even tenth.
RoundTie(k, side) ==
  IF side < 0 THEN k
  ELSE IF side > 0 THEN k + 1
  ELSE IF k % 2 = 0 THEN k ELSE k + 1

\* round(x, 1) of the double nearest to x units of 1/100000, for x up to
\* 6.0: the nearest tenth.  A tie of k + 1/2 tenths is a double only when
\* it is a multiple of 0.25 (k % 5 = 2); of the other ties the nearest
\* double lies below for the k listed and above for the rest.
Round1(x) ==
  LET k == x \div 10000
      below == {1, 3, 8, 9, 11, 14, 16, 19, 20, 21, 25, 26, 30, 31, 35, 36,
                40, 43, 45, 48, 50, 53, 55, 58}
  IN  IF x % 10000 = 5000
      THEN RoundTie(k, IF k % 5 = 2 THEN 0 ELSE IF k \in below THEN -1 ELSE 1)
      ELSE (x + 5000) \div 10000

\* f"{n:02d}"
Pad2(n) == IF n < 10 THEN "0" \o ToString(n) ELSE ToString(n)

(***************************************************************************)
(* _generate_spanish_reviews(count, base_phrase).  script[k] holds the     *)
(* outcomes the k-th iteration consumes, in the order of the code: rand,   *)
(* phrase, rating, reviewer, month, day.                                   *)
(***************************************************************************)
\* One phrase of a bank, formatted with base_phrase.
Phrase(t, base_phrase) ==
  t.prefix \o (IF t.lower THEN Lower(base_phrase) ELSE base_phrase) \o t.suffix

\* The branch of "if rand < 0.8 / elif rand < 0.95 / else".
ReviewTier(rand) ==
  IF rand < 8000 THEN "positive"
  ELSE IF rand < 9500 THEN "neutral"
  ELSE "negative"

\* The phrase bank of a branch.
TierPhrases(tier) ==
  CASE tier = "positive" -> positive_phrases
    [] tier = "neutral"  -> neutral_phrases
    [] tier = "negative" -> negative_phrases

\* Every branch drawing its rating from the whole scale.
TierRatingRange_WholeScale(tier) == <<1, 5>>

\* The bounds of the branch's random.randint(lo, hi).
TierRatingRange(tier) ==
  CASE tier = "positive" -> <<4, 5>>
    [] tier = "neutral"  -> <<3, 4>>
    [] tier = "negative" -> <<1, 3>>

\* The body of one iteration with the rating drawn before the branch is
\* taken, from the range of the first branch.
spanish_review_RatingOfFirstBranch(base_phrase, r) ==
  LET tier == ReviewTier(r.rand)
      range == TierRatingRange("positive")
  IN  [text     |-> Phrase(Choice(TierPhrases(tier), r.phrase), base_phrase),
       reviewer |-> Choice(reviewers, r.reviewer),
       rating   |-> RandInt(range[1], range[2], r.rating),
       date     |-> "2024-" \o Pad2(RandInt(1, 12, r.month))
                      \o "-" \o Pad2(RandInt(1, 28, r.day))]

\* The body of one iteration: the review it appends.
spanish_review(base_phrase, r) ==
  LET tier == ReviewTier(r.rand)
      range == TierRatingRange(tier)
  IN  [text     |-> Phrase(Choice(TierPhrases(tier), r.phrase), base_phrase),
       reviewer |-> Choice(reviewers, r.reviewer),
       rating   |-> RandInt(range[1], range[2], r.rating),
       date     |-> "2024-" \o Pad2(RandInt(1, 12, r.month))
                      \o "-" \o Pad2(RandInt(1, 28, r.day))]

generate_spanish_reviews(count, base_phrase, script) ==
  [k \in 1..count |-> spanish_review(base_phrase, script[k])]

(***************************************************************************)
(* The body of the inner loop of _generate_500_restaurants: the record     *)
(* built for one neighborhood and one restaurant_id from the outcomes d.   *)
(***************************************************************************)
\* int(50 + (rating - 3.0) * 200) of a rating of t tenths.  int() truncates
\* the double: for the ratings of FloatShort the double product falls just
\* short of the exact integer, and the result is one nearer to zero.
FloatShort == {7, 21, 22, 26, 27, 28, 29, 33, 38, 39, 41, 43, 46, 48, 51, 53, 56}

BaseReviews(t) ==
  LET exact == 50 + (t - 30) * 20
  IN  IF t \in FloatShort
      THEN (IF exact > 0 THEN exact - 1 ELSE exact + 1)
      ELSE exact

\* The bounds of random.randint(max(10, base_reviews - 50), base_reviews + 100).
ReviewCountRange(t) ==
  LET base_reviews == BaseReviews(t)
      low == base_reviews - 50
  IN  <<IF low > 10 THEN low ELSE 10, base_reviews + 100>>

\* The name without the identifier.
RestaurantName_NoSuffix(name_template, name_part, restaurant_id) ==
  name_template \o name_part

\* name_template.format(name=name_part), and the identifier appended to it.
RestaurantName(name_template, name_part, restaurant_id) ==
  LET restaurant_name == name_template \o name_part
  IN  IF restaurant_id > 1
      THEN restaurant_name \o " " \o ToString(restaurant_id)
      ELSE restaurant_name

\* The two f-strings of the address.
Address(street_name, street_number, suffix) ==
  IF suffix # ""
  THEN street_name \o " " \o ToString(street_number) \o " " \o suffix
         \o ", Santo Domingo, Rep[U+221A][U+222B]blica Dominicana"
  ELSE street_name \o " " \o ToString(street_number)
         \o ", Santo Domingo, Rep[U+221A][U+222B]blica Dominicana"

\* The rating of _generate_random_restaurant (line 458), whatever the cuisine:
\* round(random.uniform(3.5, 4.8), 1).
CuisineRating_Fixed(cuisine, u) == Round1(Uniform(350000, 480000, u))

\* The rating: round(random.uniform(lo, hi), 1).  uniform computes
\* lo + (hi - lo) * random() in doubles; where the decimal value is a tie
\* between two tenths, the double lies below it for the (lo, hi, u) of
\* below, on it for those of exact and above it otherwise (the ties of the
\* built-in rating ranges with random() = u / 10000).
CuisineRating(cuisine, u) ==
  LET lo == cuisine.rating_range[1]
      hi == cuisine.rating_range[2]
      x == Uniform(lo * 10000, hi * 10000, u)
      below == {<<33, 45, 1250>>, <<33, 45, 6250>>, <<33, 45, 8750>>,
                <<35, 47, 1250>>, <<36, 46, 500>>, <<36, 46, 3500>>,
                <<36, 46, 4500>>, <<36, 46, 7500>>, <<36, 46, 8500>>,
                <<36, 46, 9500>>, <<37, 47, 3500>>, <<37, 47, 8500>>,
                <<38, 48, 500>>, <<38, 48, 1500>>, <<38, 48, 2500>>,
                <<38, 48, 3500>>, <<38, 48, 5500>>, <<38, 48, 7500>>,
                <<38, 48, 8500>>, <<38, 49, 5000>>, <<39, 49, 500>>,
                <<39, 49, 1500>>}
      exact == {<<32, 44, 8750>>, <<33, 45, 3750>>, <<35, 47, 6250>>,
                <<36, 46, 1500>>, <<36, 46, 6500>>, <<37, 47, 500>>,
                <<37, 47, 5500>>, <<37, 48, 5000>>, <<38, 47, 5000>>,
                <<38, 48, 4500>>, <<38, 48, 9500>>, <<39, 49, 3500>>,
                <<39, 49, 8500>>}
  IN  IF x % 10000 = 5000
      THEN RoundTie(x \div 10000,
                    IF <<lo, hi, u>> \in below THEN -1
                    ELSE IF <<lo, hi, u>> \in exact THEN 0 ELSE 1)
      ELSE Round1(x)

\* The price range of _generate_random_restaurant (line 488), whatever the
\* cuisine: random.choice(price_ranges).
CuisinePrice_AnyTier(cuisine, u) == Choice(<<"$", "$$", "$$$", "$$$$">>, u)

\* The price range: random.choices over the cuisine's distribution.
CuisinePrice(cuisine, u) == Choices(cuisine.price_dist, u)

\* A coordinate as _get_neighborhood_coordinates draws it (lines 513-516):
\* a base point plus random.uniform(-0.01, 0.01).
Coordinate_Jitter(range, u) == range[1] * 10000 + Uniform(-10000, 10000, u)

\* One coordinate: random.uniform over the neighborhood's range.
Coordinate(range, u) == Uniform(range[1] * 10000, range[2] * 10000, u)

\* The features drawn with replacement: one random.choice for each.
Features_WithReplacement(d) ==
  [k \in 1..RandInt(2, 6, d.num_features) |-> Choice(all_features, d.features[k])]

\* The features: random.sample(all_features, random.randint(2, 6)).
Features(d) == Sample(all_features, RandInt(2, 6, d.num_features), d.features)

\* The reviews: _generate_spanish_reviews(random.randint(5, 15), keyword).
Reviews(d) ==
  generate_spanish_reviews(RandInt(5, 15, d.num_reviews),
                           Choice(review_keywords, d.keyword), d.reviews)

\* A step of the body that raises: random.choice of an empty list,
\* random.choices of an empty or weightless distribution, random.randint of
\* an empty range, random.sample of more than the population.
GenerationRaises(cuisines, templates, parts, d) ==
  \/ Len(cuisines) = 0
  \/ Len(parts) = 0
  \/ Len(templates) = 0
  \/ LET cuisine == Choice(cuisines, d.cuisine)
         range == ReviewCountRange(CuisineRating(cuisine, d.rating))
     IN  \/ ChoicesRaises(cuisine.price_dist)
         \/ range[1] > range[2]
         \/ RandInt(2, 6, d.num_features) > Len(all_features)

restaurant_record(neighborhood, restaurant_id, cuisines, templates, parts, d) ==
  LET cuisine == Choice(cuisines, d.cuisine)
      name_part == Choice(parts, d.name_part)
      name_template == Choice(templates, d.name_template)
      rating == CuisineRating(cuisine, d.rating)
      range == ReviewCountRange(rating)
  IN  [name          |-> RestaurantName(name_template, name_part, restaurant_id),
       address       |-> Address(Choice(street_names, d.street_name),
                                 RandInt(1, 999, d.street_number),
                                 Choice(street_suffixes, d.suffix)),
       phone         |-> "+1 809-" \o ToString(RandInt(200, 999, d.phone1))
                           \o "-" \o ToString(RandInt(1000, 9999, d.phone2)),
       website       |-> IF d.website < 5000
                         THEN <<"https://" \o Lower(name_part) \o ".com">>
                         ELSE <<>>,
       rating        |-> rating,
       review_count  |-> RandInt(range[1], range[2], d.review_count),
       business_type |-> "restaurant",
       cuisine_type  |-> cuisine.name,
       price_range   |-> CuisinePrice(cuisine, d.price),
       location      |-> "Santo Domingo, Rep[U+221A][U+222B]blica Dominicana",
       neighborhood  |-> neighborhood.name,
       coordinates   |-> [lat |-> Coordinate(neighborhood.lat_range, d.lat),
                          lng |-> Coordinate(neighborhood.lng_range, d.lng)],
       opening_hours |-> Choice(opening_hours_options, d.opening_hours),
       features      |-> Features(d),
       reviews       |-> Reviews(d)]

(***************************************************************************)
(* analyze_restaurants(restaurants).  A dict is a record; the empty dict   *)
(* is the empty function <<>>.  A Counter, and the dict made of one, is    *)
(* the sequence of its <<key, count>> pairs in insertion order.  A float   *)
(* quotient is kept exact, as <<numerator, denominator>>.                  *)
(***************************************************************************)
EmptyDict == <<>>

RECURSIVE SumSeq(_, _)
SumSeq(xs, k) == IF k = 0 THEN 0 ELSE SumSeq(xs, k - 1) + xs[k]

\* statistics.mean(xs) of a non-empty list: the sum over the length.
Mean(xs) == <<SumSeq(xs, Len(xs)), Len(xs)>>

\* [r[field] for r in rs]
FieldList(rs, field) == [k \in 1..Len(rs) |-> rs[k][field]]

\* Counter(items[:k]): the keys in the order of their first occurrence,
\* each with the number of its occurrences.
Counter(items, k) ==
  LET first == {j \in 1..k : \A m \in 1..(j - 1) : items[m] # items[j]}
  IN  [n \in 1..Cardinality(first) |->
         LET j == CHOOSE x \in first : Cardinality({m \in first : m < x}) = n - 1
         IN  <<items[j], Cardinality({m \in 1..k : items[m] = items[j]})>>]

\* sorted(pairs, key=itemgetter(1), reverse=True): by count, the greater
\* first, pairs of equal count in their order in pairs.
RECURSIVE SortedByCount(_)
SortedByCount(pairs) ==
  IF pairs = <<>> THEN <<>>
  ELSE LET top == CHOOSE j \in 1..Len(pairs) :
                    /\ \A m \in 1..Len(pairs) : pairs[m][2] <= pairs[j][2]
                    /\ \A m \in 1..(j - 1) : pairs[m][2] < pairs[j][2]
           rest == [m \in 1..(Len(pairs) - 1) |->
                      IF m < top THEN pairs[m] ELSE pairs[m + 1]]
       IN  <<pairs[top]>> \o SortedByCount(rest)

\* The first n keys counted, then sorted: the truncation before the sort.
MostCommon_TruncatedFirst(pairs, n) ==
  SortedByCount(SubSeq(pairs, 1, IF Len(pairs) < n THEN Len(pairs) ELSE n))

\* Counter.most_common(n)
MostCommon(pairs, n) ==
  LET sorted == SortedByCount(pairs)
  IN  SubSeq(sorted, 1, IF Len(sorted) < n THEN Len(sorted) ELSE n)

\* restaurant.get('features', [])
GetFeatures(r) == IF "features" \in DOMAIN r THEN r.features ELSE <<>>

\* all_reviews (lines 616-618) after the first k restaurants.
RECURSIVE AllReviews(_, _)
AllReviews(rs, k) ==
  IF k = 0 THEN <<>> ELSE AllReviews(rs, k - 1) \o rs[k].reviews

\* all_features (lines 636-638) after the first k restaurants.
RECURSIVE AllFeatures(_, _)
AllFeatures(rs, k) ==
  IF k = 0 THEN <<>> ELSE AllFeatures(rs, k - 1) \o GetFeatures(rs[k])

\* The ratings the mean of line 600 is taken of: "if r['rating']" drops a
\* rating of zero.
RatedRatings(rs) == SelectSeq(FieldList(rs, "rating"), LAMBDA x : x # 0)

\* statistics.mean raises StatisticsError on an empty list (line 600).
AnalyzeRaises(rs) == rs # <<>> /\ RatedRatings(rs) = <<>>

\* The summary with a rating of 3 counted as negative.
SentimentAnalysis_ThreeIsNegative(all_reviews) ==
  IF all_reviews # <<>>
  THEN LET ratings == [k \in 1..Len(all_reviews) |-> all_reviews[k].rating]
           positive_reviews == Cardinality({k \in 1..Len(ratings) : ratings[k] >= 4})
           negative_reviews == Cardinality({k \in 1..Len(ratings) : ratings[k] <= 3})
       IN  [average_review_rating |-> Mean(ratings),
            positive_reviews      |-> positive_reviews,
            negative_reviews      |-> negative_reviews,
            positive_percentage   |-> <<positive_reviews * 100, Len(all_reviews)>>,
            negative_percentage   |-> <<negative_reviews * 100, Len(all_reviews)>>]
  ELSE EmptyDict

\* Lines 615-633.
SentimentAnalysis(all_reviews) ==
  IF all_reviews # <<>>
  THEN LET ratings == [k \in 1..Len(all_reviews) |-> all_reviews[k].rating]
           positive_reviews == Cardinality({k \in 1..Len(ratings) : ratings[k] >= 4})
           negative_reviews == Cardinality({k \in 1..Len(ratings) : ratings[k] <= 2})
       IN  [average_review_rating |-> Mean(ratings),
            positive_reviews      |-> positive_reviews,
            negative_reviews      |-> negative_reviews,
            positive_percentage   |-> <<positive_reviews * 100, Len(all_reviews)>>,
            negative_percentage   |-> <<negative_reviews * 100, Len(all_reviews)>>]
  ELSE EmptyDict

\* The total with the review_count field summed in place of the lengths.
TotalReviews_CountField(rs) ==
  SumSeq([k \in 1..Len(rs) |-> rs[k].review_count], Len(rs))

\* Line 601: sum(len(r['reviews']) for r in restaurants).
TotalReviews(rs) ==
  SumSeq([k \in 1..Len(rs) |-> Len(rs[k].reviews)], Len(rs))

\* Lines 598-650: the report of a non-empty input.
Report(rs) ==
       LET n == Len(rs)
           features == AllFeatures(rs, n)
           cuisines == FieldList(rs, "cuisine_type")
           prices == FieldList(rs, "price_range")
           places == FieldList(rs, "neighborhood")
       IN  [total_restaurants         |-> n,
            average_rating            |-> Mean(RatedRatings(rs)),
            total_reviews             |-> TotalReviews(rs),
            cuisine_distribution      |-> Counter(cuisines, Len(cuisines)),
            price_distribution        |-> Counter(prices, Len(prices)),
            neighborhood_distribution |-> Counter(places, Len(places)),
            feature_distribution      |-> MostCommon(Counter(features, Len(features)), 15),
            sentiment_analysis        |-> SentimentAnalysis(AllReviews(rs, n))]

\* Lines 593-650, for an input on which statistics.mean does not raise:
\* "if not restaurants: return {}", else the report.
analyze_restaurants(rs) == IF rs = <<>> THEN EmptyDict ELSE Report(rs)

(***************************************************************************)
(* The state: one generation run, and one call of analyze_restaurants.     *)
(***************************************************************************)
VARIABLES
  neighborhoods,   \* the local table of neighborhoods (lines 36-52)
  cuisine_types,   \* the local table of cuisines (lines 55-71)
  name_templates,  \* the local table of name templates (lines 74-90)
  name_parts,      \* the local table of name parts (lines 93-109)
  rng,             \* the share of the random source's outcomes this run draws from
  pc,              \* "generating", "returned" (line 230) or "raised"
  nb,              \* the position of the outer loop in neighborhoods (0: not entered)
  i,               \* the inner loop's i: bodies run for neighborhoods[nb]
  restaurant_id,   \* the running identifier (line 111)
  restaurants,     \* the list under construction (line 33)
  restaurants_data, \* self.restaurants_data (line 24); <<>> before it is set
  analyzed,        \* the argument of analyze_restaurants
  an_pc,           \* "called", "returned" or "raised" ("idle": no call)
  report,          \* the value analyze_restaurants returned
  output_file,     \* the JSON document main() wrote (line 736); <<>>: none
  data,            \* what json.load makes of output_file; <<>>: not loaded
  business_kwargs, \* the keyword arguments of a call BusinessInfo(...)
  business_pc,     \* "called", "constructed" or "raised" ("idle": no call)
  business,        \* the BusinessInfo constructed; <<>>: none
  config,          \* the scraper's configuration: selenium.headless and .wait_time
  scraper_pc,      \* "new", "entered" (in the with-block), "left" or "failed"
  driver,          \* self.driver: <<>> for None, else <<the driver's options>>
  session,         \* the browser of the driver: "none", "open" or "closed"
  quit_calls,      \* the number of calls of driver.quit()
  scrapes,         \* the number of calls of scrape_businesses in the block
  exc_type,         \* the exception the block was left through ("None": none)
  exit_exc,         \* the exception __exit__ raised ("None": it returned)
  text, \* the argument of clean_text, a sequence of characters
  cleaned, \* the value clean_text returned
  clean_pc, \* "called" or "returned" ("idle": no call)
  location, \* the location argument of search_restaurants, a sequence of characters
  max_results, \* the max_results argument of search_restaurants
  found, \* the list search_restaurants returned
  search_pc, \* "called" or "returned" ("idle": no call)
  listings, \* the listings of the result page, loaded or not: TRUE where the extraction succeeds
  shown, \* the number of listings the page shows
  sb_max_results, \* the max_results argument of search_businesses
  processed_count, \* processed_count (line 88)
  businesses, \* businesses (line 87): the listing each BusinessInfo was extracted from
  business_elements, \* the elements the for loop of line 100 runs over
  element, \* the position of the for loop in business_elements
  sb_pc, \* "called", "while", "for", "scroll" or "returned" ("idle": no call)
  sb_result, \* the list search_businesses returned
  max_retries, \* the max_retries argument of retry_with_backoff
  base_delay, \* the base_delay argument, in tenths of a second
  attempt, \* the loop variable attempt (line 42)
  calls, \* what each call of func did so far: <<"returns", value>> or <<"raises", exception>>
  sleeps, \* the arguments of the calls of time.sleep so far, in tenths of a second
  rt_pc, \* "called", "returned" or "raised" ("idle": no call)
  rt_result, \* the value returned or the exception raised; <<>> for None
  businesses_table, \* rows of the businesses table, in id order
  business_data, \* the BusinessInfo handed to store_business
  existing_business, \* the row the query of store_business found, if any
  business_id, \* the id store_business returned
  store_pc, \* position of the store_business call
  store_exc, \* class of the exception store_business raised
  scraping_targets, \* self.scraping_targets of the scheduler
  job_pc, \* position of run_scraping_job
  target, \* number of the target of the outer loop
  business_type, \* number of the business type of the inner loop
  attempted, \* the (location, business type) pairs scrape_businesses was called for
  pair_outcome, \* how the last pair went: "ok"; "store_raises" (a store raised,
                \* caught by lines 109-111); "scrape_raises", "process_raises"
                \* (an Exception caught by line 78); "KeyboardInterrupt",
                \* "SystemExit" (caught by neither)
  scraped, \* the businesses of the pair under way still to be stored
  store_failed, \* a store of the pair under way raised and was logged
  job_exc, \* the exception the job ended with ("None": none)
  block_exc, \* the exception the with-block is left through
  loop_targets, \* the list object the loop of line 57 walks
  loop_shares, \* whether that object is still self.scraping_targets
  target_edits, \* calls of add_ and remove_scraping_target made
  frequency, \* pipeline.update_frequency of the configuration
  sched_jobs, \* the jobs registered with the schedule module
  start_pc, \* position of start()
  job_runs, \* number of run_scraping_job calls started
  polls, \* number of run_pending calls of the polling loop
  stopped_at, \* the value of polls when stop() was called
  pending, \* the due jobs run_pending has still to call
  drawn_rating, \* the rating of lines 141-142, in tenths
  count_pc, \* "called", "returned" or "raised" ("idle": no call)
  drawn_count \* the review_count drawn

tables == <<neighborhoods, cuisine_types, name_templates, name_parts>>
genVars == <<tables, rng, pc, nb, i, restaurant_id, restaurants, restaurants_data>>
anVars == <<analyzed, an_pc, report>>
outVars == <<output_file, data>>
bizVars == <<business_kwargs, business_pc, business>>
scrVars == <<config, scraper_pc, driver, session, quit_calls, scrapes, exc_type, exit_exc>>
txtVars == <<text, cleaned, clean_pc>>
srchVars == <<location, max_results, found, search_pc>>
lstVars == <<listings, shown, sb_max_results, processed_count, businesses, business_elements, element, sb_pc, sb_result>>
rtVars == <<max_retries, base_delay, attempt, calls, sleeps, rt_pc, rt_result>>
dbVars == <<businesses_table, business_data, existing_business, business_id, store_pc, store_exc>>
jobVars == <<scraping_targets, job_pc, target, business_type, attempted, pair_outcome, scraped, store_failed, job_exc, block_exc, loop_targets, loop_shares, target_edits>>
schedVars == <<frequency, sched_jobs, start_pc, job_runs, polls, stopped_at, pending>>
cntVars == <<drawn_rating, count_pc, drawn_count>>
vars == <<genVars, anVars, outVars, bizVars, scrVars, txtVars, srchVars, lstVars, rtVars, dbVars, jobVars, schedVars, cntVars>>

\* What a step of one component leaves alone.
notGen == <<anVars, outVars, bizVars, scrVars, txtVars, srchVars, lstVars, rtVars, dbVars, jobVars, schedVars, cntVars>>
notAn == <<genVars, outVars, bizVars, scrVars, txtVars, srchVars, lstVars, rtVars, dbVars, jobVars, schedVars, cntVars>>
notOut == <<genVars, bizVars, scrVars, txtVars, srchVars, lstVars, rtVars, dbVars, jobVars, schedVars, cntVars>>
notBiz == <<genVars, anVars, outVars, scrVars, txtVars, srchVars, lstVars, rtVars, dbVars, jobVars, schedVars, cntVars>>
notScr == <<genVars, anVars, outVars, bizVars, txtVars, srchVars, lstVars, rtVars, dbVars, jobVars, schedVars, cntVars>>
notTxt == <<genVars, anVars, outVars, bizVars, scrVars, srchVars, lstVars, rtVars, dbVars, jobVars, schedVars, cntVars>>
notSrch == <<genVars, anVars, outVars, bizVars, scrVars, txtVars, lstVars, rtVars, dbVars, jobVars, schedVars, cntVars>>
notLst == <<genVars, anVars, outVars, bizVars, scrVars, txtVars, srchVars, rtVars, dbVars, jobVars, schedVars, cntVars>>
notRt == <<genVars, anVars, outVars, bizVars, scrVars, txtVars, srchVars, lstVars, dbVars, jobVars, schedVars, cntVars>>
notDb == <<genVars, anVars, outVars, bizVars, scrVars, txtVars, srchVars, lstVars, rtVars, jobVars, schedVars, cntVars>>
notJob == <<genVars, anVars, outVars, bizVars, scrVars, txtVars, srchVars, lstVars, rtVars, dbVars, schedVars, cntVars>>
notJobScr == <<genVars, anVars, outVars, bizVars, txtVars, srchVars, lstVars, rtVars, dbVars, schedVars, cntVars>>
notJobScrDb == <<genVars, anVars, outVars, bizVars, txtVars, srchVars, lstVars, rtVars, schedVars, cntVars>>
notSched == <<genVars, anVars, outVars, bizVars, scrVars, txtVars, srchVars, lstVars, rtVars, dbVars, jobVars, cntVars>>
notCnt == <<genVars, anVars, outVars, bizVars, scrVars, txtVars, srchVars, lstVars, rtVars, dbVars, jobVars, schedVars>>

(***************************************************************************)
(* The outcomes of the random source.  A run of the program draws each     *)
(* outcome from 0..9999; TLC cannot enumerate their product, so a run of   *)
(* the model draws from one share of it, fixed by rng: the outcomes of one *)
(* group of draws range over their extreme and boundary values while the   *)
(* other draws take their first outcome.                                   *)
(***************************************************************************)
Edge == {0, 9999}

\* The thresholds of the review branches, from both sides.
TierOutcomes == <<0, 7999, 8000, 9499, 9500, 9999>>

\* The m-th sample iteration of the review loop, m in 0..11: each branch at
\* each of its thresholds, with the lowest and the highest of its other draws.
ReviewOutcomes(m) ==
  LET e == IF m % 2 = 0 THEN 0 ELSE 9999
  IN  [rand |-> TierOutcomes[(m \div 2) + 1], phrase |-> e, rating |-> e,
       reviewer |-> e, month |-> e, day |-> e]

\* Fifteen iterations of the review loop, starting at sample o.
ReviewScript(o) == [k \in 1..15 |-> ReviewOutcomes((o + k - 1) % 12)]

FirstOutcomes ==
  [cuisine |-> 0, name_part |-> 0, name_template |-> 0, lat |-> 0, lng |-> 0,
   price |-> 0, rating |-> 0, review_count |-> 0, street_name |-> 0,
   street_number |-> 0, suffix |-> 0, phone1 |-> 0, phone2 |-> 0,
   website |-> 0, opening_hours |-> 0, num_features |-> 0,
   features |-> [k \in 1..6 |-> 0], keyword |-> 0, num_reviews |-> 0,
   reviews |-> [k \in 1..15 |-> ReviewOutcomes(0)]]

Shares ==
  {"cuisine", "name", "coordinates", "price", "price2", "price3", "rating",
   "review_count", "address", "contact", "features", "reviews"}

\* The outcomes one body of the loop may draw under a share.
Outcomes(share) ==
  CASE share = "cuisine" ->
         {[FirstOutcomes EXCEPT !.cuisine = u] : u \in {0, 1000, 6000, 9999}}
    [] share = "name" ->
         {[FirstOutcomes EXCEPT !.name_part = u, !.name_template = u] : u \in Edge}
    [] share = "coordinates" ->
         {[FirstOutcomes EXCEPT !.lat = u, !.lng = v] : u \in Edge, v \in Edge}
    [] share = "price" ->
         {[FirstOutcomes EXCEPT !.cuisine = 1000, !.price = u] :
            u \in {0, 1000, 7999, 9999}}
    [] share = "price2" ->
         {[FirstOutcomes EXCEPT !.cuisine = 6000, !.price = u] :
            u \in {0, 7999, 8000, 9999}}
    [] share = "price3" ->
         {[FirstOutcomes EXCEPT !.cuisine = 2000, !.price = u] :
            u \in {5999, 6000, 6001}}
    [] share = "rating" ->
         {[FirstOutcomes EXCEPT !.cuisine = c, !.rating = u] :
            c \in {6000, 8000}, u \in {0, 3333, 3750, 8750, 9999}}
    [] share = "review_count" ->
         {[FirstOutcomes EXCEPT !.rating = u, !.review_count = v] :
            u \in Edge, v \in Edge}
    [] share = "address" ->
         {[FirstOutcomes EXCEPT !.street_name = u, !.street_number = u,
                                !.suffix = u] : u \in Edge}
    [] share = "contact" ->
         {[FirstOutcomes EXCEPT !.phone1 = u, !.phone2 = u, !.website = u] :
            u \in {4999, 5000}}
    [] share = "features" ->
         {[FirstOutcomes EXCEPT !.num_features = u, !.opening_hours = v,
                                !.features = [k \in 1..6 |-> v]] :
            u \in Edge, v \in Edge}
    [] share = "reviews" ->
         {[FirstOutcomes EXCEPT !.num_reviews = u,
                                !.keyword = IF o = 0 THEN 0 ELSE 8500,
                                !.reviews = ReviewScript(o)] :
            u \in Edge, o \in {0, 6}}

(***************************************************************************)
(* The tables of a run.  The built-in table sums to 500 records; a run of  *)
(* the model takes the first rows of it, at most MaxRows, with their       *)
(* counts scaled down to sum to at most MaxRecords.                        *)
(***************************************************************************)
RECURSIVE SumCounts(_, _)
SumCounts(counts, k) ==
  IF k = 0 THEN 0 ELSE SumCounts(counts, k - 1) + counts[k]

CountVectors ==
  {c \in UNION {[1..n -> 0..MaxRecords] : n \in 1..MaxRows} :
     SumCounts(c, Len(c)) <= MaxRecords}

ScaledNeighborhoods ==
  {[k \in 1..Len(c) |-> [builtin_neighborhoods[k] EXCEPT !.count = c[k]]] :
     c \in CountVectors}

\* The sum of the declared counts of a neighborhood table.
DeclaredTotal(table) == SumCounts([k \in 1..Len(table) |-> table[k].count], Len(table))

(***************************************************************************)
(* _generate_500_restaurants as a state machine.                           *)
(***************************************************************************)
\* Lines 33-111: the tables, the empty list, restaurant_id = 1.
InitGenerate(rows, cuisines, templates, parts, share) ==
  /\ neighborhoods = rows
  /\ cuisine_types = cuisines
  /\ name_templates = templates
  /\ name_parts = parts
  /\ rng = share
  /\ pc = "generating"
  /\ nb = 0
  /\ i = 0
  /\ restaurant_id = 1
  /\ restaurants = <<>>
  /\ restaurants_data = <<>>

\* The inner loop stopping one body short: range(count - 1).
InnerDone_SkipsLast == IF nb = 0 THEN TRUE ELSE i + 1 >= neighborhoods[nb].count

\* Line 114: the inner loop has run all its bodies for the current
\* neighborhood.
InnerDone == IF nb = 0 THEN TRUE ELSE i >= neighborhoods[nb].count

\* The outer for taking the next neighborhood with the identifier set back
\* to 1.
NextNeighborhood_ResetsId ==
  /\ pc = "generating"
  /\ InnerDone
  /\ nb < Len(neighborhoods)
  /\ nb' = nb + 1
  /\ i' = 0
  /\ restaurant_id' = 1
  /\ UNCHANGED <<tables, rng, pc, restaurants, restaurants_data>>
  /\ UNCHANGED notGen

\* Line 113: the outer for takes the next neighborhood.
NextNeighborhood ==
  /\ pc = "generating"
  /\ InnerDone
  /\ nb < Len(neighborhoods)
  /\ nb' = nb + 1
  /\ i' = 0
  /\ UNCHANGED <<tables, rng, pc, restaurant_id, restaurants, restaurants_data>>
  /\ UNCHANGED notGen

\* The body building every record for the first neighborhood of the table.
GenerateRestaurant_FirstNeighborhood ==
  /\ pc = "generating"
  /\ ~InnerDone
  /\ \E d \in Outcomes(rng) :
       IF GenerationRaises(cuisine_types, name_templates, name_parts, d)
       THEN /\ pc' = "raised"
            /\ UNCHANGED <<i, restaurant_id, restaurants>>
       ELSE /\ restaurants' =
                 Append(restaurants,
                        restaurant_record(neighborhoods[1], restaurant_id,
                                          cuisine_types, name_templates,
                                          name_parts, d))
            /\ restaurant_id' = restaurant_id + 1
            /\ i' = i + 1
            /\ pc' = pc
  /\ UNCHANGED <<tables, rng, nb, restaurants_data>>
  /\ UNCHANGED notGen

\* Lines 114-228: one body of the inner loop.  It appends one record and
\* advances restaurant_id, or a draw raises and the run ends.
GenerateRestaurant ==
  /\ pc = "generating"
  /\ ~InnerDone
  /\ \E d \in Outcomes(rng) :
       IF GenerationRaises(cuisine_types, name_templates, name_parts, d)
       THEN /\ pc' = "raised"
            /\ UNCHANGED <<i, restaurant_id, restaurants>>
       ELSE /\ restaurants' =
                 Append(restaurants,
                        restaurant_record(neighborhoods[nb], restaurant_id,
                                          cuisine_types, name_templates,
                                          name_parts, d))
            /\ restaurant_id' = restaurant_id + 1
            /\ i' = i + 1
            /\ pc' = pc
  /\ UNCHANGED <<tables, rng, nb, restaurants_data>>
  /\ UNCHANGED notGen

\* Line 230: both loops are exhausted, the list is returned; the
\* constructor that called (lines 24, 29) stores it in restaurants_data.
ReturnRestaurants ==
  /\ pc = "generating"
  /\ InnerDone
  /\ nb = Len(neighborhoods)
  /\ pc' = "returned"
  /\ restaurants_data' = restaurants
  /\ UNCHANGED <<tables, rng, nb, i, restaurant_id, restaurants>>
  /\ UNCHANGED notGen

NextGenerate == NextNeighborhood \/ GenerateRestaurant \/ ReturnRestaurants

\* No call of analyze_restaurants is under way.
AnalyzerIdle == analyzed = <<>> /\ an_pc = "idle" /\ report = EmptyDict

\* main() has written no file.
NothingSaved == output_file = <<>> /\ data = <<>>

\* No BusinessInfo is being constructed.
NoBusiness == business_kwargs = <<>> /\ business_pc = "idle" /\ business = <<>>

\* No GoogleMapsScraper exists.
NoScraper ==
  /\ config = <<>>
  /\ scraper_pc = "idle"
  /\ driver = <<>>
  /\ session = "none"
  /\ quit_calls = 0
  /\ scrapes = 0
  /\ exc_type = "None"
  /\ exit_exc = "None"

\* clean_text is not called.
NoText ==
  /\ text = <<>>
  /\ cleaned = <<>>
  /\ clean_pc = "idle"

\* search_restaurants is not called.
NoSearch ==
  /\ location = <<>>
  /\ max_results = 0
  /\ found = <<>>
  /\ search_pc = "idle"

\* search_businesses is not called.
NoListings ==
  /\ listings = <<>>
  /\ shown = 0
  /\ sb_max_results = 0
  /\ processed_count = 0
  /\ businesses = <<>>
  /\ business_elements = <<>>
  /\ element = 0
  /\ sb_pc = "idle"
  /\ sb_result = <<>>

\* retry_with_backoff is not called.
NoRetry ==
  /\ max_retries = 0
  /\ base_delay = 0
  /\ attempt = 0
  /\ calls = <<>>
  /\ sleeps = <<>>
  /\ rt_pc = "idle"
  /\ rt_result = <<>>

\* No store_business call has been made and the businesses table is empty.
NoDatabase ==
  /\ businesses_table = <<>>
  /\ business_data = <<>>
  /\ existing_business = <<>>
  /\ business_id = <<>>
  /\ store_pc = "idle"
  /\ store_exc = ""

\* run_scraping_job is not running.
NoJob ==
  /\ scraping_targets = <<>>
  /\ job_pc = "idle"
  /\ target = 0
  /\ business_type = 0
  /\ attempted = <<>>
  /\ pair_outcome = "none"
  /\ scraped = <<>>
  /\ store_failed = FALSE
  /\ job_exc = "None"
  /\ block_exc = "None"
  /\ loop_targets = <<>>
  /\ loop_shares = FALSE
  /\ target_edits = 0

\* start() has not been called and no job is registered.
NoScheduler ==
  /\ frequency = ""
  /\ sched_jobs = <<>>
  /\ start_pc = "idle"
  /\ job_runs = 0
  /\ polls = 0
  /\ stopped_at = <<>>
  /\ pending = <<>>

\* The draw of review_count is not taken on its own.
NoReviewCount ==
  /\ drawn_rating = 0
  /\ count_pc = "idle"
  /\ drawn_count = 0

\* No generation run is under way: the scraper is constructed.
GeneratorIdle ==
  /\ neighborhoods = <<>>
  /\ cuisine_types = <<>>
  /\ name_templates = <<>>
  /\ name_parts = <<>>
  /\ rng = "none"
  /\ pc = "idle"
  /\ nb = 0
  /\ i = 0
  /\ restaurant_id = 1
  /\ restaurants = <<>>

\* The generator on the built-in tables, scaled.
Init ==
  /\ \E rows \in ScaledNeighborhoods, share \in Shares :
       InitGenerate(rows, builtin_cuisine_types, builtin_name_templates,
                    builtin_name_parts, share)
  /\ AnalyzerIdle
  /\ NothingSaved
  /\ NoBusiness
  /\ NoScraper
  /\ NoText
  /\ NoSearch
  /\ NoListings
  /\ NoRetry
  /\ NoDatabase
  /\ NoJob
  /\ NoScheduler
  /\ NoReviewCount

Spec == Init /\ [][NextGenerate]_vars

(***************************************************************************)
(* Lines 141-142 on their own: the draw of review_count for a rating.  The *)
(* rating is the one line 138 rounded to one decimal for the cuisine that  *)
(* was drawn; the step is taken for every rating of the scale 0.0 to 5.0.  *)
(***************************************************************************)
MaxRating == 50

\* The ratings of the scale, in tenths.
Ratings == 0..MaxRating

InitReviewCount ==
  /\ GeneratorIdle
  /\ restaurants_data = <<>>
  /\ AnalyzerIdle
  /\ NothingSaved
  /\ NoBusiness
  /\ NoScraper
  /\ NoText
  /\ NoSearch
  /\ NoListings
  /\ NoRetry
  /\ NoDatabase
  /\ NoJob
  /\ NoScheduler
  /\ drawn_rating \in Ratings
  /\ count_pc = "called"
  /\ drawn_count = 0

\* Lines 141-142: base_reviews, then random.randint, which raises ValueError
\* when the range is empty.
DrawReviewCount ==
  /\ count_pc = "called"
  /\ LET range == ReviewCountRange(drawn_rating)
     IN  IF range[1] > range[2]
         THEN /\ count_pc' = "raised"
              /\ drawn_count' = drawn_count
         ELSE /\ count_pc' = "returned"
              /\ \E u \in {0, 5000, 9999} :
                   drawn_count' = RandInt(range[1], range[2], u)
  /\ UNCHANGED drawn_rating
  /\ UNCHANGED notCnt

NextReviewCount == DrawReviewCount

SpecReviewCount == InitReviewCount /\ [][NextReviewCount]_vars

(***************************************************************************)
(* Runs one after the other: line 24 executed again on the scraper, which  *)
(* keeps the list of the run before until the new run returns.             *)
(***************************************************************************)
InitRuns ==
  /\ \E rows \in ScaledNeighborhoods :
       InitGenerate(rows, builtin_cuisine_types, builtin_name_templates,
                    builtin_name_parts, "name")
  /\ AnalyzerIdle
  /\ NothingSaved
  /\ NoBusiness
  /\ NoScraper
  /\ NoText
  /\ NoSearch
  /\ NoListings
  /\ NoRetry
  /\ NoDatabase
  /\ NoJob
  /\ NoScheduler
  /\ NoReviewCount

\* Lines 31-111 entered again: the list is empty and restaurant_id is 1.
NewRun ==
  /\ pc = "returned"
  /\ pc' = "generating"
  /\ nb' = 0
  /\ i' = 0
  /\ restaurant_id' = 1
  /\ restaurants' = <<>>
  /\ UNCHANGED <<tables, rng, restaurants_data>>
  /\ UNCHANGED notGen

NextRuns == NextNeighborhood \/ GenerateRestaurant \/ ReturnRestaurants \/ NewRun

SpecRuns == InitRuns /\ [][NextRuns]_vars

(***************************************************************************)
(* analyze_restaurants as a state machine: one call on one input.          *)
(***************************************************************************)
\* Records the analyzer is called on: generated ones, and records that differ
\* from them where the analyzer looks (a rating of zero, no review, no
\* 'features' key, reviews rated 2, 3 and 4, more features than a generated
\* record has).
GeneratedSample(row, id, d) ==
  restaurant_record(builtin_neighborhoods[row], id, builtin_cuisine_types,
                    builtin_name_templates, builtin_name_parts, d)

\* A record with the features all_features[from..to], in that order when
\* from <= to and in the reverse order otherwise.
WithFeatures(r, from, to) ==
  [r EXCEPT !.features =
     IF from <= to
     THEN SubSeq(all_features, from, to)
     ELSE [k \in 1..(from - to + 1) |-> all_features[from - k + 1]]]

SampleRestaurants ==
  LET first == GeneratedSample(1, 1, FirstOutcomes)
      fast == GeneratedSample(2, 2,
                [FirstOutcomes EXCEPT !.cuisine = 6000, !.price = 9999,
                   !.rating = 9999, !.num_features = 9999,
                   !.num_reviews = 9999, !.reviews = ReviewScript(6)])
      mixed == GeneratedSample(2, 3,
                [FirstOutcomes EXCEPT !.cuisine = 1000, !.price = 7999,
                   !.num_features = 9999, !.features = [k \in 1..6 |-> 9999],
                   !.reviews = ReviewScript(7)])
      rated == [k \in 1..3 |-> [first.reviews[1] EXCEPT !.rating = k + 1]]
  IN  {first, fast, mixed,
       [first EXCEPT !.rating = 0],
       [first EXCEPT !.reviews = <<>>],
       [k \in DOMAIN first \ {"features"} |-> first[k]],
       WithFeatures(first, 1, 8),
       [WithFeatures(first, 5, 14) EXCEPT !.reviews = rated],
       WithFeatures(first, 17, 9)}

AnalyzerInputs == UNION {[1..n -> SampleRestaurants] : n \in 0..MaxInput}

\* The list the scraper stores while analyze_restaurants runs: the list it
\* is called on, or another one.
StoredRestaurants(input) ==
  {input, <<GeneratedSample(1, 1, FirstOutcomes)>>}

InitAnalyze ==
  /\ GeneratorIdle
  /\ analyzed \in AnalyzerInputs
  /\ restaurants_data \in StoredRestaurants(analyzed)
  /\ an_pc = "called"
  /\ report = EmptyDict
  /\ NothingSaved
  /\ NoBusiness
  /\ NoScraper
  /\ NoText
  /\ NoSearch
  /\ NoListings
  /\ NoRetry
  /\ NoDatabase
  /\ NoJob
  /\ NoScheduler
  /\ NoReviewCount

\* The call with all_reviews bound to the first record's list in place of a
\* new one: extend() then grows the input's list.
Analyze_ExtendsFirstList ==
  /\ an_pc = "called"
  /\ IF AnalyzeRaises(analyzed)
     THEN an_pc' = "raised" /\ report' = report /\ analyzed' = analyzed
     ELSE /\ an_pc' = "returned"
          /\ report' = analyze_restaurants(analyzed)
          /\ analyzed' =
               IF analyzed = <<>> THEN analyzed
               ELSE [analyzed EXCEPT ![1].reviews =
                       AllReviews(analyzed, Len(analyzed))]
  /\ UNCHANGED notAn

\* Lines 593-650: the call returns its report, or statistics.mean raises.
Analyze ==
  /\ an_pc = "called"
  /\ IF AnalyzeRaises(analyzed)
     THEN an_pc' = "raised" /\ report' = report
     ELSE an_pc' = "returned" /\ report' = analyze_restaurants(analyzed)
  /\ UNCHANGED analyzed
  /\ UNCHANGED notAn

NextAnalyze == Analyze

SpecAnalyze == InitAnalyze /\ [][NextAnalyze]_vars

(***************************************************************************)
(* Saving the results: main() builds output_data (lines 724-733) and       *)
(* json.dump writes it (lines 735-736); generate_wordcloud.py reads the    *)
(* file back with json.load (lines 18-19).  A Python value is its type     *)
(* and its payload; a JSON value is its kind and its payload.  The payload *)
(* of a number is <<numerator, denominator>>.                              *)
(***************************************************************************)
PyStr(s) == [type |-> "str", value |-> s]
PyInt(n) == [type |-> "int", value |-> <<n, 1>>]
PyFloat(q) == [type |-> "float", value |-> q]
PyNone == [type |-> "NoneType"]
PyList(items) == [type |-> "list", items |-> items]
PyDict(keys, values) == [type |-> "dict", keys |-> keys, values |-> values]

\* A float written the shortest way: without a fraction when it has none.
FloatToken_Shortest(q) ==
  [kind |-> "number", fraction |-> q[1] % q[2] # 0, value |-> q]

\* float.__repr__, the encoder's form of a float: always with a fraction
\* (or an exponent), "4.0" for 4.0.
FloatToken(q) == [kind |-> "number", fraction |-> TRUE, value |-> q]

\* int.__repr__, the encoder's form of an int: digits only.
IntToken(q) == [kind |-> "number", fraction |-> FALSE, value |-> q]

\* json.dump (line 736): dict -> object, list -> array, str -> string,
\* int and float -> number, None -> null.
RECURSIVE json_dump(_)
json_dump(v) ==
  CASE v.type = "dict" ->
         [kind |-> "object", keys |-> v.keys,
          values |-> [k \in DOMAIN v.values |-> json_dump(v.values[k])]]
    [] v.type = "list" ->
         [kind |-> "array",
          items |-> [k \in DOMAIN v.items |-> json_dump(v.items[k])]]
    [] v.type = "str" -> [kind |-> "string", value |-> v.value]
    [] v.type = "int" -> IntToken(v.value)
    [] v.type = "float" -> FloatToken(v.value)
    [] v.type = "NoneType" -> [kind |-> "null"]

\* json.load (generate_wordcloud.py line 19): object -> dict, array -> list,
\* string -> str, number without fraction or exponent -> int, other
\* number -> float, null -> None.
RECURSIVE json_load(_)
json_load(j) ==
  CASE j.kind = "object" ->
         PyDict(j.keys, [k \in DOMAIN j.values |-> json_load(j.values[k])])
    [] j.kind = "array" ->
         PyList([k \in DOMAIN j.items |-> json_load(j.items[k])])
    [] j.kind = "string" -> PyStr(j.value)
    [] j.kind = "number" ->
         IF j.fraction THEN PyFloat(j.value)
         ELSE PyInt(j.value[1] \div j.value[2])
    [] j.kind = "null" -> PyNone

\* The review dict of lines 571-576.
PyReview(r) ==
  PyDict(<<"text", "reviewer", "rating", "date">>,
         <<PyStr(r.text), PyStr(r.reviewer), PyInt(r.rating), PyStr(r.date)>>)

\* The restaurant dict of lines 209-225: rating, lat and lng are floats,
\* review_count an int, website a str or None.
PyRestaurant(r) ==
  PyDict(<<"name", "address", "phone", "website", "rating", "review_count",
           "business_type", "cuisine_type", "price_range", "location",
           "neighborhood", "coordinates", "opening_hours", "features",
           "reviews">>,
         <<PyStr(r.name), PyStr(r.address), PyStr(r.phone),
           IF r.website = <<>> THEN PyNone ELSE PyStr(r.website[1]),
           PyFloat(<<r.rating, 10>>), PyInt(r.review_count),
           PyStr(r.business_type), PyStr(r.cuisine_type),
           PyStr(r.price_range), PyStr(r.location), PyStr(r.neighborhood),
           PyDict(<<"lat", "lng">>,
                  <<PyFloat(<<r.coordinates.lat, 1000000>>),
                    PyFloat(<<r.coordinates.lng, 1000000>>)>>),
           PyStr(r.opening_hours),
           PyList([k \in DOMAIN r.features |-> PyStr(r.features[k])]),
           PyList([k \in DOMAIN r.reviews |-> PyReview(r.reviews[k])])>>)

\* dict(Counter) of lines 645-648: str keys, int counts.
PyCounter(pairs) ==
  PyDict([k \in DOMAIN pairs |-> pairs[k][1]],
         [k \in DOMAIN pairs |-> PyInt(pairs[k][2])])

\* statistics.mean of ints (line 617): an int when the quotient is whole,
\* a float otherwise.
PyIntMean(q) == IF q[1] % q[2] = 0 THEN PyInt(q[1] \div q[2]) ELSE PyFloat(q)

\* The sentiment summary of lines 626-632, {} when there is no review.
PySentiment(s) ==
  IF s = EmptyDict THEN PyDict(<<>>, <<>>)
  ELSE PyDict(<<"average_review_rating", "positive_reviews",
                "negative_reviews", "positive_percentage",
                "negative_percentage">>,
              <<PyIntMean(s.average_review_rating), PyInt(s.positive_reviews),
                PyInt(s.negative_reviews), PyFloat(s.positive_percentage),
                PyFloat(s.negative_percentage)>>)

\* The report of lines 641-650.  average_rating is the mean of the ratings,
\* kept by the analyzer as <<sum of tenths, count>>; as a float it is
\* sum / (10 * count).
PyAnalysis(a) ==
  PyDict(<<"total_restaurants", "average_rating", "total_reviews",
           "cuisine_distribution", "price_distribution",
           "neighborhood_distribution", "feature_distribution",
           "sentiment_analysis">>,
         <<PyInt(a.total_restaurants),
           PyFloat(<<a.average_rating[1], a.average_rating[2] * 10>>),
           PyInt(a.total_reviews), PyCounter(a.cuisine_distribution),
           PyCounter(a.price_distribution),
           PyCounter(a.neighborhood_distribution),
           PyCounter(a.feature_distribution),
           PySentiment(a.sentiment_analysis)>>)

\* Lines 724-733.  scraped_at is datetime.now().isoformat(), a str.
output_data(rs, analysis) ==
  PyDict(<<"scraped_at", "location", "business_type", "total_results",
           "scraper_type", "analysis", "restaurants">>,
         <<PyStr("2024-01-01T00:00:00"),
           PyStr("Santo Domingo, Rep[U+221A][U+222B]blica Dominicana"),
           PyStr("restaurants"), PyInt(Len(rs)),
           PyStr("comprehensive_500_plus"), PyAnalysis(analysis),
           PyList([k \in DOMAIN rs |-> PyRestaurant(rs[k])])>>)

\* The value of key in a dict.
Get(dict, key) ==
  dict.values[CHOOSE k \in DOMAIN dict.keys : dict.keys[k] = key]

\* Generated restaurants main() saves: with and without a website, with a
\* whole and with a fractional rating.
SavedSamples ==
  {GeneratedSample(1, 1, FirstOutcomes),
   GeneratedSample(1, 2, [FirstOutcomes EXCEPT !.website = 9999]),
   GeneratedSample(2, 3, [FirstOutcomes EXCEPT !.cuisine = 8000,
                            !.rating = 0, !.reviews = ReviewScript(7)]),
   GeneratedSample(2, 4, [FirstOutcomes EXCEPT !.cuisine = 6000,
                            !.website = 9999, !.rating = 9999,
                            !.num_reviews = 9999,
                            !.reviews = ReviewScript(6)])}

SavedInputs == UNION {[1..n -> SavedSamples] : n \in 1..MaxInput}

\* main() at line 722: the search returned restaurants (line 673) and the
\* analysis is made (line 695).
InitSave ==
  /\ GeneratorIdle
  /\ analyzed \in SavedInputs
  /\ restaurants_data = analyzed
  /\ an_pc = "returned"
  /\ report = analyze_restaurants(analyzed)
  /\ NothingSaved
  /\ NoBusiness
  /\ NoScraper
  /\ NoText
  /\ NoSearch
  /\ NoListings
  /\ NoRetry
  /\ NoDatabase
  /\ NoJob
  /\ NoScheduler
  /\ NoReviewCount

\* Lines 724-736.
SaveResults ==
  /\ an_pc = "returned"
  /\ output_file = <<>>
  /\ output_file' = json_dump(output_data(analyzed, report))
  /\ UNCHANGED <<data, anVars>>
  /\ UNCHANGED notOut

\* generate_wordcloud.py lines 18-19.
LoadResults ==
  /\ output_file # <<>>
  /\ data = <<>>
  /\ data' = json_load(output_file)
  /\ UNCHANGED <<output_file, anVars>>
  /\ UNCHANGED notOut

NextSave == SaveResults \/ LoadResults

SpecSave == InitSave /\ [][NextSave]_vars

(***************************************************************************)
(* BusinessInfo (src/scraper/google_maps_scraper.py lines 22-34): a        *)
(* dataclass of ten fields, none of which declares a default value.  A     *)
(* call with keyword arguments is the function from the names given to the *)
(* values given; None is <<>> and another value v of an Optional field is  *)
(* <<v>>.                                                                  *)
(***************************************************************************)
BusinessInfoFields ==
  <<"name", "address", "phone", "website", "rating", "review_count",
    "business_type", "location", "reviews", "coordinates">>

\* The fields declared Optional[...] (lines 27-30 and 34).
OptionalFields == {"phone", "website", "rating", "review_count", "coordinates"}

\* The fields declared with "= value": there is none.
DefaultedFields == {}

FieldNames == {BusinessInfoFields[k] : k \in DOMAIN BusinessInfoFields}

\* The generated __init__ raises TypeError when a field without a default
\* is not given, and when a name that is no field is given.
BusinessInfoRaises(kwargs) ==
  \/ \E f \in FieldNames \ DefaultedFields : f \notin DOMAIN kwargs
  \/ \E k \in DOMAIN kwargs : k \notin FieldNames

\* The object the generated __init__ builds: each field is the value given.
BusinessInfo(kwargs) == [f \in FieldNames |-> kwargs[f]]

\* Values a caller gives: those of tests/test_scraper.py lines 33-44, or
\* None for the Optional fields.
ArgValue(f, fill) ==
  CASE f = "name" -> "Test Restaurant"
    [] f = "address" -> "123 Test St"
    [] f = "business_type" -> "restaurant"
    [] f = "location" -> "Test City"
    [] f = "reviews" -> <<>>
    [] f = "phone" -> IF fill = "None" THEN <<>> ELSE <<"555-1234">>
    [] f = "website" -> IF fill = "None" THEN <<>> ELSE <<"https://test.com">>
    [] f = "rating" -> IF fill = "None" THEN <<>> ELSE <<45>>
    [] f = "review_count" -> IF fill = "None" THEN <<>> ELSE <<100>>
    [] f = "coordinates" ->
         IF fill = "None" THEN <<>>
         ELSE <<[lat |-> 40712800, lng |-> -74006000]>>
    [] OTHER -> <<>>

\* The keyword arguments of the calls: any set of field names, and the
\* name "extra" that is no field.
BusinessCalls ==
  {[f \in given |-> ArgValue(f, fill)] :
     given \in SUBSET (FieldNames \cup {"extra"}), fill \in {"None", "values"}}

InitBusiness ==
  /\ GeneratorIdle
  /\ restaurants_data = <<>>
  /\ AnalyzerIdle
  /\ NothingSaved
  /\ NoScraper
  /\ business_kwargs \in BusinessCalls
  /\ business_pc = "called"
  /\ business = <<>>
  /\ NoText
  /\ NoSearch
  /\ NoListings
  /\ NoRetry
  /\ NoDatabase
  /\ NoJob
  /\ NoScheduler
  /\ NoReviewCount

\* The call of BusinessInfo with the keyword arguments business_kwargs.
Construct ==
  /\ business_pc = "called"
  /\ IF BusinessInfoRaises(business_kwargs)
     THEN business_pc' = "raised" /\ business' = business
     ELSE business_pc' = "constructed"
          /\ business' = BusinessInfo(business_kwargs)
  /\ UNCHANGED business_kwargs
  /\ UNCHANGED notBiz

NextBusiness == Construct

SpecBusiness == InitBusiness /\ [][NextBusiness]_vars

(***************************************************************************)
(* GoogleMapsScraper as a context manager (google_maps_scraper.py lines    *)
(* 40-59 and 252-261), used as in pipeline/scheduler.py line 56:           *)
(* "with GoogleMapsScraper(config) as scraper:" constructs the scraper,    *)
(* enters the block, runs it and leaves it through __exit__.               *)
(***************************************************************************)
Configs == [headless : BOOLEAN, wait_time : {10, 30}]

\* Lines 47-56: the arguments given to Chrome.
ChromeOptions(cfg) ==
  (IF cfg.headless THEN <<"--headless">> ELSE <<>>)
    \o <<"--no-sandbox", "--disable-dev-shm-usage", "--disable-gpu",
         "--window-size=1920,1080",
         "--user-agent=Mozilla/5.0 (Windows NT 10.0; Win64; x64) AppleWebKit/537.36">>

\* Exceptions a block is left through; "None" when it ends normally.
\* KeyboardInterrupt and SystemExit are no subclasses of Exception.
ExcTypes == {"None", "Exception", "KeyboardInterrupt", "SystemExit"}

InitScraper ==
  /\ GeneratorIdle
  /\ restaurants_data = <<>>
  /\ AnalyzerIdle
  /\ NothingSaved
  /\ NoBusiness
  /\ config \in Configs
  /\ scraper_pc = "new"
  /\ driver = <<>>
  /\ session = "none"
  /\ quit_calls = 0
  /\ scrapes = 0
  /\ exc_type = "None"
  /\ exit_exc = "None"
  /\ NoText
  /\ NoSearch
  /\ NoListings
  /\ NoRetry
  /\ NoDatabase
  /\ NoJob
  /\ NoScheduler
  /\ NoReviewCount

\* Lines 40-59, __init__ and setup_driver: webdriver.Chrome starts the
\* browser, or raises; implicitly_wait (line 59) may raise once the browser
\* runs.  An exception leaves the with statement before its block.
ScraperInit ==
  /\ scraper_pc = "new"
  /\ \E outcome \in {"ok", "chrome_raises", "wait_raises"} :
       /\ driver' = IF outcome = "chrome_raises" THEN <<>>
                    ELSE <<ChromeOptions(config)>>
       /\ session' = IF outcome = "chrome_raises" THEN "none" ELSE "open"
       /\ scraper_pc' = IF outcome = "ok" THEN "constructed" ELSE "failed"
  /\ UNCHANGED <<config, quit_calls, scrapes, exc_type, exit_exc>>
  /\ UNCHANGED notScr

\* Lines 257-258: __enter__ returns self.
Enter ==
  /\ scraper_pc = "constructed"
  /\ scraper_pc' = "entered"
  /\ UNCHANGED <<config, driver, session, quit_calls, scrapes, exc_type,
                 exit_exc>>
  /\ UNCHANGED notScr

\* Lines 248-250 in the block: scrape_businesses uses the driver and
\* returns; what goes wrong in the search is caught (lines 121-123).
ScrapeBusinesses ==
  /\ scraper_pc = "entered"
  /\ scrapes < MaxCalls
  /\ scrapes' = scrapes + 1
  /\ UNCHANGED <<config, scraper_pc, driver, session, quit_calls, exc_type,
                 exit_exc>>
  /\ UNCHANGED notScr

\* Lines 252-255: close() quits the driver if there is one; self.driver is
\* kept.  The result is <<session, quit_calls>>: the call of quit() is made
\* and ends the browser whether quit() returns or raises.
close(d, s, q) == IF d # <<>> THEN <<"closed", q + 1>> ELSE <<s, q>>

\* Line 255: what driver.quit() can raise inside close(); nothing when
\* there is no driver to quit.
QuitOutcomes(d) == IF d # <<>> THEN ExcTypes ELSE {"None"}

\* close() called in the block.
CloseInBlock ==
  /\ scraper_pc = "entered"
  /\ quit_calls < MaxCalls
  /\ session' = close(driver, session, quit_calls)[1]
  /\ quit_calls' = close(driver, session, quit_calls)[2]
  /\ UNCHANGED <<config, scraper_pc, driver, scrapes, exc_type, exit_exc>>
  /\ UNCHANGED notScr

\* __exit__ closing only a block that ended normally.
Exit_OnlyOnSuccess ==
  /\ scraper_pc = "entered"
  /\ \E e \in ExcTypes :
       /\ exc_type' = e
       /\ session' = IF e = "None" THEN close(driver, session, quit_calls)[1]
                    ELSE session
       /\ quit_calls' = IF e = "None" THEN close(driver, session, quit_calls)[2]
                       ELSE quit_calls
       /\ exit_exc' \in (IF e = "None" THEN QuitOutcomes(driver) ELSE {"None"})
  /\ scraper_pc' = "left"
  /\ UNCHANGED <<config, driver, scrapes>>
  /\ UNCHANGED notScr

\* Lines 260-261: the block ends, normally or through an exception;
\* __exit__ calls close().  When close() returns, __exit__ returns None and
\* the exception of the block goes on; when driver.quit() raises, that
\* exception leaves __exit__ and takes the place of the block's.
Exit ==
  /\ scraper_pc = "entered"
  /\ \E e \in ExcTypes :
       /\ exc_type' = e
       /\ session' = close(driver, session, quit_calls)[1]
       /\ quit_calls' = close(driver, session, quit_calls)[2]
       /\ exit_exc' \in QuitOutcomes(driver)
  /\ scraper_pc' = "left"
  /\ UNCHANGED <<config, driver, scrapes>>
  /\ UNCHANGED notScr

NextScraper ==
  ScraperInit \/ Enter \/ ScrapeBusinesses \/ CloseInBlock \/ Exit

SpecScraper == InitScraper /\ [][NextScraper]_vars

(***************************************************************************)
(* TextProcessor.clean_text (src/nlp/text_processor.py lines 53-79).  A    *)
(* text is the sequence of its characters.  Each re.sub is the scan the    *)
(* regular expression engine makes: leftmost match first, every quantifier *)
(* greedy, the scan going on after the match.                              *)
(***************************************************************************)
LowerLetters ==
  <<"a", "b", "c", "d", "e", "f", "g", "h", "i", "j", "k", "l", "m", "n",
    "o", "p", "q", "r", "s", "t", "u", "v", "w", "x", "y", "z">>

UpperLetters ==
  <<"A", "B", "C", "D", "E", "F", "G", "H", "I", "J", "K", "L", "M", "N",
    "O", "P", "Q", "R", "S", "T", "U", "V", "W", "X", "Y", "Z">>

Letters ==
  {LowerLetters[k] : k \in DOMAIN LowerLetters}
    \cup {UpperLetters[k] : k \in DOMAIN UpperLetters}

Digits == {"0", "1", "2", "3", "4", "5", "6", "7", "8", "9"}

\* \s of the ASCII characters.
Whitespace ==
  {" ", "\t", "\n", "\r", "\f", "[U+000B]", "[U+001C]", "[U+001D]",
   "[U+001E]", "[U+001F]"}

\* \w of the ASCII characters.
WordChars == Letters \cup Digits \cup {"_"}

\* The class of line 62: letters, digits, [$-_] (the characters from "$"
\* to "_" in ASCII order), and ! * \ ( ) ,
UrlChars ==
  Letters \cup Digits
    \cup {"$", "%", "&", "'", "(", ")", "*", "+", ",", "-", ".", "/", ":",
          ";", "<", "=", ">", "?", "@", "[", "\\", "]", "^", "_"}
    \cup {"!"}

\* [-.\s] of line 68.
PhoneSeparators == {"-", "."} \cup Whitespace

\* The characters line 74 keeps: [\w\s.!?].
KeptChars == WordChars \cup Whitespace \cup {".", "!", "?"}

\* str.lower of one character.
ToLower(c) ==
  IF \E k \in DOMAIN UpperLetters : UpperLetters[k] = c
  THEN LowerLetters[CHOOSE k \in DOMAIN UpperLetters : UpperLetters[k] = c]
  ELSE c

\* Line 59.
lower(t) == [k \in DOMAIN t |-> ToLower(t[k])]

\* The character at position p; "" past either end.
At(t, p) == IF p \in DOMAIN t THEN t[p] ELSE ""

\* The text t has the characters w from position p on.
HasPrefix(t, p, w) ==
  /\ p + Len(w) - 1 <= Len(t)
  /\ \A k \in DOMAIN w : t[p + k - 1] = w[k]

\* The last position of the longest run from p of characters that are in
\* class (inside) or not in class (not inside); p - 1 when it is empty.
RunEnd(t, p, class, inside) ==
  CHOOSE e \in (p - 1)..Len(t) :
    /\ \A j \in p..e : (t[j] \in class) = inside
    /\ e = Len(t) \/ (t[e + 1] \in class) # inside

\* n digits stand at p.
DigitsAt(t, p, n) == \A k \in 0..(n - 1) : At(t, p + k) \in Digits

\* Line 62: the end of the match of the URL pattern at p; 0 when none.
UrlMatchEnd(t, p) ==
  LET host == IF HasPrefix(t, p, <<"h", "t", "t", "p", "s", ":", "/", "/">>)
              THEN p + 8
              ELSE IF HasPrefix(t, p, <<"h", "t", "t", "p", ":", "/", "/">>)
                   THEN p + 7 ELSE 0
  IN  IF host = 0 THEN 0
      ELSE IF RunEnd(t, host, UrlChars, TRUE) >= host
           THEN RunEnd(t, host, UrlChars, TRUE) ELSE 0

\* Line 65: the end of the match of \S+@\S+ at p; 0 when none.
EmailMatchEnd(t, p) ==
  IF t[p] \in Whitespace THEN 0
  ELSE LET e == RunEnd(t, p, Whitespace, FALSE)
       IN  IF \E j \in (p + 1)..(e - 1) : t[j] = "@" THEN e ELSE 0

\* Line 68: the end of the match of the phone pattern at p; 0 when none.
PhoneMatchEnd(t, p) ==
  LET area == IF At(t, p) = "(" THEN p + 1 ELSE p
      close_paren == area + 3
      sep1 == IF At(t, close_paren) = ")" THEN close_paren + 1 ELSE close_paren
      mid == IF At(t, sep1) \in PhoneSeparators THEN sep1 + 1 ELSE sep1
      sep2 == mid + 3
      last == IF At(t, sep2) \in PhoneSeparators THEN sep2 + 1 ELSE sep2
  IN  IF DigitsAt(t, area, 3) /\ DigitsAt(t, mid, 3) /\ DigitsAt(t, last, 4)
      THEN last + 3 ELSE 0

\* re.sub(pattern, '', text) from position p on, for the three patterns.
RECURSIVE RemoveUrls(_, _)
RemoveUrls(t, p) ==
  IF p > Len(t) THEN <<>>
  ELSE IF UrlMatchEnd(t, p) > 0 THEN RemoveUrls(t, UrlMatchEnd(t, p) + 1)
       ELSE <<t[p]>> \o RemoveUrls(t, p + 1)

RECURSIVE RemoveEmails(_, _)
RemoveEmails(t, p) ==
  IF p > Len(t) THEN <<>>
  ELSE IF EmailMatchEnd(t, p) > 0 THEN RemoveEmails(t, EmailMatchEnd(t, p) + 1)
       ELSE <<t[p]>> \o RemoveEmails(t, p + 1)

RECURSIVE RemovePhones(_, _)
RemovePhones(t, p) ==
  IF p > Len(t) THEN <<>>
  ELSE IF PhoneMatchEnd(t, p) > 0 THEN RemovePhones(t, PhoneMatchEnd(t, p) + 1)
       ELSE <<t[p]>> \o RemovePhones(t, p + 1)

\* The characters of t at the positions keep, in order.
Pick(t, keep) ==
  [n \in 1..Cardinality(keep) |->
     t[CHOOSE x \in keep : Cardinality({m \in keep : m < x}) = n - 1]]

\* Line 71: re.sub(r'\s+', ' ', text).
CollapseWhitespace(t) ==
  LET spaced == [k \in DOMAIN t |-> IF t[k] \in Whitespace THEN " " ELSE t[k]]
  IN  Pick(spaced, {k \in DOMAIN t :
                      t[k] \in Whitespace => At(t, k - 1) \notin Whitespace})

\* Line 74: re.sub(r'[^\w\s.!?]', '', text).
RemovePunctuation(t) == SelectSeq(t, LAMBDA c : c \in KeptChars)

\* Line 77: str.strip.
Strip(t) ==
  LET solid == {k \in DOMAIN t : t[k] \notin Whitespace}
  IN  IF solid = {} THEN <<>>
      ELSE SubSeq(t, CHOOSE k \in solid : \A m \in solid : k <= m,
                     CHOOSE k \in solid : \A m \in solid : k >= m)

\* Lines 53-79.
clean_text(t) ==
  IF t = <<>> THEN <<>>
  ELSE Strip(RemovePunctuation(CollapseWhitespace(
         RemovePhones(RemoveEmails(RemoveUrls(lower(t), 1), 1), 1))))

\* The pieces the texts are made of: words, whitespace, punctuation the
\* cleaning keeps and removes (alone and between spaces), and the parts of a
\* URL, of an e-mail address and of a phone number.
TextPieces ==
  {<<"o", "k">>, <<"O", "K">>, <<" ">>, <<"\t">>, <<"[U+000B]">>, <<",">>, <<".">>,
   <<" ", "&", " ">>,
   <<"@">>, <<"-">>, <<"h", "t", "t", "p", "s", ":", "/", "/">>,
   <<"(", "5", "5", "5", ")">>, <<"5", "5", "5">>, <<"1", "2", "3", "4">>}

RECURSIVE Flatten(_)
Flatten(pieces) ==
  IF pieces = <<>> THEN <<>> ELSE Head(pieces) \o Flatten(Tail(pieces))

Texts == {Flatten(ps) : ps \in UNION {[1..n -> TextPieces] : n \in 0..MaxPieces}}

InitClean ==
  /\ GeneratorIdle
  /\ restaurants_data = <<>>
  /\ AnalyzerIdle
  /\ NothingSaved
  /\ NoBusiness
  /\ NoScraper
  /\ text \in Texts
  /\ cleaned = <<>>
  /\ clean_pc = "called"
  /\ NoSearch
  /\ NoListings
  /\ NoRetry
  /\ NoDatabase
  /\ NoJob
  /\ NoScheduler
  /\ NoReviewCount

\* The call clean_text(text).
CleanText ==
  /\ clean_pc = "called"
  /\ cleaned' = clean_text(text)
  /\ clean_pc' = "returned"
  /\ UNCHANGED text
  /\ UNCHANGED notTxt

NextClean == CleanText

SpecClean == InitClean /\ [][NextClean]_vars

(***************************************************************************)
(* search_restaurants(location, max_results), lines 580-591.  The strings  *)
(* it compares are sequences of characters.                                *)
(***************************************************************************)
\* The characters of the location of a record.
LocationChars(s) ==
  CASE s = "Santo Domingo, Rep[U+221A][U+222B]blica Dominicana" ->
         <<"S", "a", "n", "t", "o", " ", "D", "o", "m", "i", "n", "g", "o", ",",
           " ", "R", "e", "p", "[U+221A]", "[U+222B]", "b", "l", "i", "c", "a",
           " ", "D", "o", "m", "i", "n", "i", "c", "a", "n", "a">>
    [] s = "Santiago" -> <<"S", "a", "n", "t", "i", "a", "g", "o">>

\* Python's "needle in hay" for strings.
Contains(needle, hay) ==
  \E p \in 0..(Len(hay) - Len(needle)) :
    \A k \in 1..Len(needle) : hay[p + k] = needle[k]

\* Python's xs[:n]: the first n items, and for a negative n all but the
\* last -n.
SliceTo(xs, n) ==
  LET stop == IF n >= 0 THEN (IF n < Len(xs) THEN n ELSE Len(xs))
              ELSE (IF Len(xs) + n > 0 THEN Len(xs) + n ELSE 0)
  IN  SubSeq(xs, 1, stop)

\* Lines 585-591.
search_restaurants(stored, loc, n) ==
  SliceTo(SelectSeq(stored,
                    LAMBDA r : Contains(lower(loc), lower(LocationChars(r.location)))),
          n)

\* Locations asked for: none, the city in three spellings, a part across
\* the comma, the whole location, a city with the same first letters, the
\* city with two spaces.
Locations ==
  {<<>>,
   <<"S", "a", "n", "t", "o", " ", "D", "o", "m", "i", "n", "g", "o">>,
   <<"s", "a", "n", "t", "o", " ", "d", "o", "m", "i", "n", "g", "o">>,
   <<"D", "O", "M", "I", "N", "I", "C", "A", "N", "A">>,
   <<"g", "o", ",", " ", "R", "e", "p">>,
   LocationChars("Santo Domingo, Rep[U+221A][U+222B]blica Dominicana"),
   <<"S", "a", "n", "t", "i", "a", "g", "o">>,
   <<"S", "a", "n", "t", "o", " ", " ", "D", "o", "m", "i", "n", "g", "o">>}

\* Records the scraper stores: generated ones, and one of another city.
StoredSamples ==
  {GeneratedSample(1, 1, FirstOutcomes),
   GeneratedSample(2, 2, [FirstOutcomes EXCEPT !.cuisine = 6000]),
   [GeneratedSample(1, 3, FirstOutcomes) EXCEPT !.location = "Santiago"]}

StoredLists == UNION {[1..n -> StoredSamples] : n \in 0..MaxInput}

InitSearch ==
  /\ GeneratorIdle
  /\ restaurants_data \in StoredLists
  /\ AnalyzerIdle
  /\ NothingSaved
  /\ NoBusiness
  /\ NoScraper
  /\ NoText
  /\ location \in Locations
  /\ max_results \in -1..(MaxInput + 1)
  /\ found = <<>>
  /\ search_pc = "called"
  /\ NoListings
  /\ NoRetry
  /\ NoDatabase
  /\ NoJob
  /\ NoScheduler
  /\ NoReviewCount

\* The call search_restaurants(location, max_results).
Search ==
  /\ search_pc = "called"
  /\ found' = search_restaurants(restaurants_data, location, max_results)
  /\ search_pc' = "returned"
  /\ UNCHANGED <<location, max_results>>
  /\ UNCHANGED notSrch

NextSearch == Search

SpecSearch == InitSearch /\ [][NextSearch]_vars

(***************************************************************************)
(* GoogleMapsScraper.search_businesses (google_maps_scraper.py lines       *)
(* 61-123).  A listing is its position on the result page; the page shows  *)
(* the first shown listings and scrolling may load more of them.  The      *)
(* extraction of a listing (lines 125-167) returns a BusinessInfo, or None *)
(* when something in it raises.                                            *)
(***************************************************************************)
\* Result pages: up to MaxListings listings, each extractable or not.
ResultPages == UNION {[1..n -> BOOLEAN] : n \in 0..MaxListings}

InitListings ==
  /\ GeneratorIdle
  /\ restaurants_data = <<>>
  /\ AnalyzerIdle
  /\ NothingSaved
  /\ NoBusiness
  /\ NoScraper
  /\ NoText
  /\ NoSearch
  /\ listings \in ResultPages
  /\ shown \in 0..Len(listings)
  /\ sb_max_results \in 0..(MaxListings + 1)
  /\ processed_count = 0
  /\ businesses = <<>>
  /\ business_elements = <<>>
  /\ element = 0
  /\ sb_pc = "called"
  /\ sb_result = <<>>
  /\ NoRetry
  /\ NoDatabase
  /\ NoJob
  /\ NoScheduler
  /\ NoReviewCount

\* Lines 72-88: the page is loaded and the lists are empty; or loading the
\* page raises and the except clause of lines 121-123 returns [].
LoadPage ==
  /\ sb_pc = "called"
  /\ \/ sb_pc' = "while" /\ sb_result' = sb_result
     \/ sb_pc' = "returned" /\ sb_result' = <<>>
  /\ UNCHANGED <<listings, shown, sb_max_results, processed_count, businesses,
                 business_elements, element>>
  /\ UNCHANGED notLst

\* Lines 90-100: the test of the while loop; the listings shown are read,
\* the loop is left when there is none, and the for loop starts on the
\* elements from position processed_count on.  find_elements (line 92) is
\* inside the try of line 78: when it raises, the except clause of lines
\* 121-123 returns [] whatever has been collected.
WhileTest ==
  /\ sb_pc = "while"
  /\ IF processed_count < sb_max_results
     THEN \E find_raises \in BOOLEAN :
            IF find_raises
            THEN /\ sb_pc' = "returned"
                 /\ sb_result' = <<>>
                 /\ UNCHANGED <<business_elements, element>>
            ELSE IF shown > 0
            THEN /\ business_elements' =
                      [k \in 1..(IF shown > processed_count
                                 THEN shown - processed_count ELSE 0) |->
                         processed_count + k]
                 /\ element' = 1
                 /\ sb_pc' = "for"
                 /\ sb_result' = sb_result
            ELSE /\ sb_pc' = "returned"
                 /\ sb_result' = businesses
                 /\ UNCHANGED <<business_elements, element>>
     ELSE /\ sb_pc' = "returned"
          /\ sb_result' = businesses
          /\ UNCHANGED <<business_elements, element>>
  /\ UNCHANGED <<listings, shown, sb_max_results, processed_count, businesses>>
  /\ UNCHANGED notLst

\* Lines 100-113: one turn of the for loop.  It ends when the elements are
\* exhausted or processed_count has reached max_results; otherwise the
\* element is extracted, and appended and counted when there is a result.
ForElement ==
  /\ sb_pc = "for"
  /\ IF element > Len(business_elements) \/ processed_count >= sb_max_results
     THEN /\ sb_pc' = "scroll"
          /\ UNCHANGED <<processed_count, businesses, element>>
     ELSE /\ sb_pc' = sb_pc
          /\ element' = element + 1
          /\ IF listings[business_elements[element]]
             THEN /\ businesses' = Append(businesses, business_elements[element])
                  /\ processed_count' = processed_count + 1
             ELSE UNCHANGED <<processed_count, businesses>>
  /\ UNCHANGED <<listings, shown, sb_max_results, business_elements, sb_result>>
  /\ UNCHANGED notLst

\* Lines 115-117: scrolling; the page shows the same listings or more.
ScrollToLoadMore ==
  /\ sb_pc = "scroll"
  /\ \E more \in 0..(Len(listings) - shown) : shown' = shown + more
  /\ sb_pc' = "while"
  /\ UNCHANGED <<listings, sb_max_results, processed_count, businesses,
                 business_elements, element, sb_result>>
  /\ UNCHANGED notLst

NextListings == LoadPage \/ WhileTest \/ ForElement \/ ScrollToLoadMore

SpecListings == InitListings /\ [][NextListings]_vars

\* The call goes on as long as it has a step to take.
SpecListingsFair == SpecListings /\ WF_vars(NextListings)

(***************************************************************************)
(* retry_with_backoff(func, max_retries, base_delay), src/utils/helpers.py *)
(* lines 40-51.  func is what its calls do: each call returns a value or   *)
(* raises an exception.                                                    *)
(***************************************************************************)
RECURSIVE Pow2(_)
Pow2(n) == IF n = 0 THEN 1 ELSE 2 * Pow2(n - 1)

\* A delay growing by base_delay with every attempt.
BackoffDelay_Linear(base, n) == base * 2 * n

\* Line 49: base_delay * (2 ** attempt).
BackoffDelay(base, n) == base * Pow2(n)

\* What a call of func does.
FuncOutcomes ==
  {<<"returns", "page">>, <<"returns", "">>,
   <<"raises", "TimeoutError">>, <<"raises", "ValueError">>}

InitRetry ==
  /\ GeneratorIdle
  /\ restaurants_data = <<>>
  /\ AnalyzerIdle
  /\ NothingSaved
  /\ NoBusiness
  /\ NoScraper
  /\ NoText
  /\ NoSearch
  /\ NoListings
  /\ max_retries \in 0..MaxRetries
  /\ base_delay \in {1, 5, 10}
  /\ attempt = 0
  /\ calls = <<>>
  /\ sleeps = <<>>
  /\ rt_pc = "called"
  /\ rt_result = <<>>
  /\ NoDatabase
  /\ NoJob
  /\ NoScheduler
  /\ NoReviewCount

\* Lines 42-51: one turn of the loop.  func is called; its value is
\* returned, or its exception is raised again when the attempt is the last,
\* or the delay is slept and the loop goes on.
Attempt ==
  /\ rt_pc = "called"
  /\ attempt < max_retries
  /\ \E outcome \in FuncOutcomes :
       /\ calls' = Append(calls, outcome)
       /\ IF outcome[1] = "returns"
          THEN /\ rt_pc' = "returned"
               /\ rt_result' = <<outcome[2]>>
               /\ UNCHANGED <<attempt, sleeps>>
          ELSE IF attempt = max_retries - 1
               THEN /\ rt_pc' = "raised"
                    /\ rt_result' = <<outcome[2]>>
                    /\ UNCHANGED <<attempt, sleeps>>
               ELSE /\ sleeps' = Append(sleeps, BackoffDelay(base_delay, attempt))
                    /\ attempt' = attempt + 1
                    /\ UNCHANGED <<rt_pc, rt_result>>
  /\ UNCHANGED <<max_retries, base_delay>>
  /\ UNCHANGED notRt

\* Line 42 with nothing left in range(max_retries), which happens only for
\* max_retries <= 0: the function falls off its end and returns None.
LoopExhausted ==
  /\ rt_pc = "called"
  /\ attempt >= max_retries
  /\ rt_pc' = "returned"
  /\ rt_result' = <<>>
  /\ UNCHANGED <<max_retries, base_delay, attempt, calls, sleeps>>
  /\ UNCHANGED notRt

NextRetry == Attempt \/ LoopExhausted

SpecRetry == InitRetry /\ [][NextRetry]_vars

----------------------------------------------------------------------------
\* src/database/connection.py, DatabaseManager.store_business (lines
\* 52-102) on the businesses table of src/database/models.py (lines 11-30).
\* A row is a record of the columns; the two timestamp columns are left
\* out, the model has no clock.

\* getattr of Python on an object of the model: the value of the attribute,
\* or AttributeError when the object has none of that name.
HasAttr(obj, attr) == attr \in DOMAIN obj

\* The businesses the scraper hands over: BusinessInfo objects (lines 22-34
\* of google_maps_scraper.py) that differ in their key and in a column the
\* update path writes.
ScrapedBusinesses ==
  {BusinessInfo([f \in FieldNames |->
     CASE f = "name" -> n
       [] f = "location" -> l
       [] f = "phone" -> p
       [] OTHER -> ArgValue(f, "values")]) :
     n \in {"Test Restaurant", "Other Restaurant"},
     l \in {"Test City", "Other City"},
     p \in {<<>>, <<"555-1234">>}}

\* Lines 58-62: the query; first() gives the matching row of lowest id, or
\* None.
QueryFirst(table, b) ==
  IF \E k \in DOMAIN table :
       /\ table[k].name = b["name"]
       /\ table[k].address = b["address"]
       /\ table[k].location = b["location"]
  THEN <<CHOOSE k \in DOMAIN table :
           /\ table[k].name = b["name"]
           /\ table[k].address = b["address"]
           /\ table[k].location = b["location"]
           /\ \A j \in DOMAIN table :
                (/\ table[j].name = b["name"]
                 /\ table[j].address = b["address"]
                 /\ table[j].location = b["location"]) => k <= j>>
  ELSE <<>>

\* Lines 66-70: the columns the update path assigns.
UpdatedRow(row, b) ==
  [row EXCEPT !.phone = b["phone"], !.website = b["website"],
              !.rating = b["rating"], !.review_count = b["review_count"],
              !.coordinates = b["coordinates"]]

\* Lines 77-87: the row the insert path builds; the autoincrement primary
\* key is the next id.
NewRow(table, b) ==
  [id |-> Len(table) + 1, name |-> b["name"], address |-> b["address"],
   phone |-> b["phone"], website |-> b["website"], rating |-> b["rating"],
   review_count |-> b["review_count"],
   business_type |-> b["business_type"], location |-> b["location"],
   coordinates |-> b["coordinates"]]

InitStore ==
  /\ GeneratorIdle
  /\ restaurants_data = <<>>
  /\ AnalyzerIdle
  /\ NothingSaved
  /\ NoBusiness
  /\ NoScraper
  /\ NoText
  /\ NoSearch
  /\ NoListings
  /\ NoRetry
  /\ NoDatabase
  /\ NoJob
  /\ NoScheduler
  /\ NoReviewCount

\* Lines 52-102, one call for the business b.  The database answers
\* (db_ok) or fails with a SQLAlchemyError, which is rolled back and raised
\* again (lines 96-99).  On the update path line 71 reads
\* business_data.updated_at before the commit of line 73: an object without
\* that attribute raises AttributeError there, which no except clause of
\* the method names, so the session is closed (line 102) with nothing
\* committed.
StoreCall(b, db_ok) ==
  /\ business_data' = <<b>>
  /\ IF ~db_ok
     THEN /\ existing_business' = <<>>
          /\ store_pc' = "raised"
          /\ store_exc' = "SQLAlchemyError"
          /\ business_id' = <<>>
          /\ UNCHANGED businesses_table
     ELSE /\ existing_business' = QueryFirst(businesses_table, b)
          /\ IF existing_business' /= <<>>
             THEN IF HasAttr(b, "updated_at")
                  THEN /\ businesses_table' =
                            [businesses_table EXCEPT
                               ![existing_business'[1]] = UpdatedRow(@, b)]
                       /\ business_id' =
                            <<businesses_table[existing_business'[1]].id>>
                       /\ store_pc' = "returned"
                       /\ store_exc' = ""
                  ELSE /\ store_pc' = "raised"
                       /\ store_exc' = "AttributeError"
                       /\ business_id' = <<>>
                       /\ UNCHANGED businesses_table
             ELSE /\ businesses_table' =
                       Append(businesses_table, NewRow(businesses_table, b))
                  /\ business_id' = <<Len(businesses_table) + 1>>
                  /\ store_pc' = "returned"
                  /\ store_exc' = ""

\* store_business called on its own, for any scraped business.
store_business ==
  /\ store_pc \in {"idle", "returned", "raised"}
  /\ \E b \in ScrapedBusinesses, db_ok \in BOOLEAN :
       /\ (Len(businesses_table) < MaxStored
            \/ QueryFirst(businesses_table, b) /= <<>>)
       /\ StoreCall(b, db_ok)
  /\ UNCHANGED notDb

NextStore == store_business

SpecStore == InitStore /\ [][NextStore]_vars

----------------------------------------------------------------------------
\* src/pipeline/scheduler.py, DataPipelineScheduler.run_scraping_job (lines
\* 51-88) with _process_and_store_businesses (lines 90-111).  The job
\* constructs a GoogleMapsScraper and enters its with-block (ScraperInit
\* and Enter above), walks the targets and their business types, leaves
\* the block (Exit above) and returns.

\* Lines 36-45 and the key pipeline.scraping_targets: the locations and
\* the business types of the targets.
TargetLocations == <<"New York, NY", "Los Angeles, CA", "Chicago, IL">>
TargetTypes == <<"restaurants", "hotels", "shopping">>

\* The target lists of the model: up to MaxTargets targets, each with up
\* to MaxTypes business types.
TargetLists ==
  UNION {{[t \in 1..n |->
             [location |-> TargetLocations[t],
              business_types |-> SubSeq(TargetTypes, 1, counts[t])]] :
            counts \in [1..n -> 0..MaxTypes]} : n \in 0..MaxTargets}

\* The lists scrape_businesses returns for a pair: up to MaxFound
\* BusinessInfo objects.  _extract_business_info (google_maps_scraper.py
\* lines 156-166) gives each of them the location and the business type of
\* the pair.  search_businesses catches what goes wrong in the search
\* (lines 121-123) and returns the businesses it has.
MaxFound == 1

FoundBusinesses(l, t) ==
  {BusinessInfo([f \in FieldNames |->
     CASE f = "location" -> l
       [] f = "business_type" -> t
       [] OTHER -> ArgValue(f, "values")])}

PairResults(l, t) ==
  UNION {[1..n -> FoundBusinesses(l, t)] : n \in 0..MaxFound}

\* The businesses of a list that store_business would insert as new rows.
NewKeys(table, bs) ==
  {k \in DOMAIN bs : QueryFirst(table, bs[k]) = <<>>}

\* Line 87: "except Exception" handles the subclasses of Exception.
CaughtByExceptException(e) == e = "Exception"

\* The outcome of a pair whose call raised e.
RaisedOutcome(e, call) ==
  IF CaughtByExceptException(e) THEN call ELSE e

\* The selenium section of the configuration the scheduler is made with
\* when no file changes it (src/utils/config.py lines 44-47).
DefaultConfig == [headless |-> TRUE, wait_time |-> 10]

InitJob ==
  /\ GeneratorIdle
  /\ restaurants_data = <<>>
  /\ AnalyzerIdle
  /\ NothingSaved
  /\ NoBusiness
  /\ config = DefaultConfig
  /\ scraper_pc = "new"
  /\ driver = <<>>
  /\ session = "none"
  /\ quit_calls = 0
  /\ scrapes = 0
  /\ exc_type = "None"
  /\ exit_exc = "None"
  /\ NoText
  /\ NoSearch
  /\ NoListings
  /\ NoRetry
  /\ NoDatabase
  /\ scraping_targets \in TargetLists
  /\ job_pc = "called"
  /\ target = 0
  /\ business_type = 0
  /\ attempted = <<>>
  /\ pair_outcome = "none"
  /\ scraped = <<>>
  /\ store_failed = FALSE
  /\ job_exc = "None"
  /\ block_exc = "None"
  /\ loop_targets = <<>>
  /\ loop_shares = FALSE
  /\ target_edits = 0
  /\ NoScheduler
  /\ NoReviewCount

\* The pair of the inner loop's turn under way.
CurrentPair ==
  <<loop_targets[target].location,
    loop_targets[target].business_types[business_type + 1]>>

\* Lines 57-62: the head of the outer loop, entered from line 56 or after
\* the sleep of line 83.  Entered from line 56, the for statement takes the
\* list object self.scraping_targets names at that moment and walks it by
\* position.  The next target is taken, or the block ends.
ForTarget ==
  /\ scraper_pc = "entered"
  /\ job_pc \in {"called", "slept"}
  /\ \E walked \in {IF job_pc = "called" THEN scraping_targets
                    ELSE loop_targets} :
       IF target < Len(walked)
       THEN /\ target' = target + 1
            /\ business_type' = 0
            /\ job_pc' = "for_type"
            /\ loop_targets' = walked
            /\ loop_shares' = IF job_pc = "called" THEN TRUE ELSE loop_shares
       ELSE /\ job_pc' = "block_done"
            /\ loop_targets' = walked
            /\ loop_shares' = FALSE
            /\ UNCHANGED <<target, business_type>>
  /\ UNCHANGED <<scraping_targets, attempted, pair_outcome, scraped,
                 store_failed, job_exc, block_exc, target_edits>>
  /\ UNCHANGED <<scrVars, notJobScr>>

\* The turn of the inner loop ends with the outcome given: the loop goes on
\* with the next business type, or the exception e that line 78 does not
\* catch leaves the with-block.
PairEnds(outcome, e) ==
  /\ pair_outcome' = outcome
  /\ business_type' = business_type + 1
  /\ scraped' = <<>>
  /\ store_failed' = FALSE
  /\ block_exc' = IF e = "None" \/ CaughtByExceptException(e)
                  THEN block_exc ELSE e
  /\ job_pc' = IF block_exc' = "None" THEN "for_type" ELSE "block_raised"
  /\ loop_shares' = IF block_exc' = "None" THEN loop_shares ELSE FALSE

\* Lines 64-71: the inner loop takes the next business type and calls
\* scrape_businesses for the pair; the search then waits for the page
\* (google_maps_scraper.py lines 80 and 83-85).
ForBusinessType ==
  /\ job_pc = "for_type"
  /\ business_type < Len(loop_targets[target].business_types)
  /\ job_pc' = "scraping"
  /\ attempted' = Append(attempted, CurrentPair)
  /\ scrapes' = scrapes + 1
  /\ UNCHANGED <<scraping_targets, target, business_type, pair_outcome,
                 scraped, store_failed, job_exc, block_exc, loop_targets,
                 loop_shares, target_edits>>
  /\ UNCHANGED <<config, scraper_pc, driver, session, quit_calls, exc_type,
                 exit_exc>>
  /\ UNCHANGED <<dbVars, notJobScrDb>>

\* Lines 67-74: scrape_businesses returns the businesses found for the
\* pair, or raises.  With no business found _process_and_store_businesses
\* has nothing to do and the turn ends; an Exception is logged by line 79
\* and the loop continues with the next business type; KeyboardInterrupt
\* and SystemExit are not caught by line 78 and leave the with-block.
ScrapeReturns ==
  /\ job_pc = "scraping"
  /\ \E scrape_exc \in ExcTypes :
       IF scrape_exc /= "None"
       THEN PairEnds(RaisedOutcome(scrape_exc, "scrape_raises"), scrape_exc)
       ELSE \E bs \in PairResults(CurrentPair[1], CurrentPair[2]) :
              /\ Len(businesses_table)
                   + Cardinality(NewKeys(businesses_table, bs)) <= MaxStored
              /\ IF bs = <<>>
                 THEN PairEnds("ok", "None")
                 ELSE /\ scraped' = bs
                      /\ store_failed' = FALSE
                      /\ job_pc' = "storing"
                      /\ UNCHANGED <<business_type, pair_outcome, block_exc,
                                     loop_shares>>
  /\ UNCHANGED <<scraping_targets, target, attempted, job_exc, loop_targets,
                 target_edits>>
  /\ UNCHANGED <<scrVars, notJobScr>>

\* Lines 92-111, one turn of the loop of _process_and_store_businesses:
\* store_business is called for the next business (line 95); what it
\* raises is logged (lines 109-111) and the loop goes on.  An exception
\* from outside that try, or one that "except Exception" is not written
\* for, raised before the call or after it, leaves the method: line 78
\* catches an Exception, the others leave the with-block.  After the last
\* business the turn of the inner loop ends.
StoreBusiness ==
  /\ job_pc = "storing"
  /\ scraped /= <<>>
  /\ \E called \in BOOLEAN, db_ok \in BOOLEAN, process_exc \in ExcTypes :
       /\ ~called => (db_ok /\ process_exc /= "None")
       /\ IF called
          THEN StoreCall(Head(scraped), db_ok)
          ELSE UNCHANGED dbVars
       /\ IF process_exc /= "None"
          THEN PairEnds(RaisedOutcome(process_exc, "process_raises"),
                        process_exc)
          ELSE IF Tail(scraped) = <<>>
               THEN PairEnds(IF store_failed \/ store_pc' = "raised"
                             THEN "store_raises" ELSE "ok", "None")
               ELSE /\ scraped' = Tail(scraped)
                    /\ store_failed' = (store_failed \/ store_pc' = "raised")
                    /\ UNCHANGED <<job_pc, business_type, pair_outcome,
                                   block_exc, loop_shares>>
  /\ UNCHANGED <<scraping_targets, target, attempted, job_exc, loop_targets,
                 target_edits>>
  /\ UNCHANGED <<scrVars, notJobScrDb>>

\* Line 83, after the inner loop and outside its try: the delay is read
\* from the configuration and slept.  time.sleep raises an Exception for a
\* delay that is no number, and KeyboardInterrupt or SystemExit when the
\* process is interrupted in its sleep; each leaves the with-block.
SleepBetweenLocations ==
  /\ job_pc = "for_type"
  /\ business_type >= Len(loop_targets[target].business_types)
  /\ \E sleep_exc \in ExcTypes :
       /\ job_pc' = IF sleep_exc = "None" THEN "slept" ELSE "block_raised"
       /\ block_exc' = sleep_exc
       /\ loop_shares' = IF sleep_exc = "None" THEN loop_shares ELSE FALSE
  /\ UNCHANGED <<scraping_targets, target, business_type, attempted,
                 pair_outcome, scraped, store_failed, job_exc, loop_targets,
                 target_edits>>
  /\ UNCHANGED <<scrVars, notJobScr>>

\* Line 56, the end of the with statement: __exit__ is called with the
\* exception the block is left through.
LeaveBlock ==
  /\ job_pc \in {"block_done", "block_raised"}
  /\ Exit
  /\ exc_type' = block_exc

\* The exception on its way when the with statement is over: what
\* __exit__ raised, else the exception the block was left through.
AfterWith(block, exit) == IF exit /= "None" THEN exit ELSE block

\* Lines 85-88: the job ends.  The construction failed, with an Exception,
\* KeyboardInterrupt or SystemExit, or the block was left; the exception on
\* the way is logged by the outer except clause when it is an Exception,
\* and goes on to the caller otherwise.
JobEnds ==
  /\ job_pc \in {"called", "block_done", "block_raised"}
  /\ scraper_pc \in {"failed", "left"}
  /\ \E ended \in (IF scraper_pc = "failed" THEN ExcTypes \ {"None"}
                   ELSE {AfterWith(block_exc, exit_exc)}) :
       /\ job_exc' = ended
       /\ job_pc' = IF ended = "None" \/ CaughtByExceptException(ended)
                    THEN "returned" ELSE "raised"
  /\ UNCHANGED <<scraping_targets, target, business_type, attempted,
                 pair_outcome, scraped, store_failed, block_exc,
                 loop_targets, loop_shares, target_edits>>
  /\ UNCHANGED <<scrVars, notJobScr>>

\* Lines 142-151: add_scraping_target, called by another thread at any
\* moment of the job.  The target is appended in place, so a loop that
\* walks the same list object meets it.
add_scraping_target ==
  /\ job_pc # "idle"
  /\ target_edits < MaxEdits
  /\ \E l \in {TargetLocations[t] : t \in DOMAIN TargetLocations},
        n \in 0..1 :
       \E added \in {[location |-> l,
                      business_types |-> SubSeq(TargetTypes, 1, n)]} :
         /\ scraping_targets' = Append(scraping_targets, added)
         /\ loop_targets' = IF loop_shares THEN Append(loop_targets, added)
                            ELSE loop_targets
  /\ target_edits' = target_edits + 1
  /\ UNCHANGED <<job_pc, target, business_type, attempted, pair_outcome,
                 scraped, store_failed, job_exc, block_exc, loop_shares>>
  /\ UNCHANGED <<scrVars, notJobScr>>

\* Lines 153-159: remove_scraping_target, called by another thread at any
\* moment of the job.  self.scraping_targets is bound to a new, filtered
\* list; a loop under way keeps walking the old one.
remove_scraping_target ==
  /\ job_pc # "idle"
  /\ target_edits < MaxEdits
  /\ \E l \in {TargetLocations[t] : t \in DOMAIN TargetLocations} :
       scraping_targets' =
         SelectSeq(scraping_targets, LAMBDA t : t.location # l)
  /\ loop_shares' = FALSE
  /\ target_edits' = target_edits + 1
  /\ UNCHANGED <<job_pc, target, business_type, attempted, pair_outcome,
                 scraped, store_failed, job_exc, block_exc, loop_targets>>
  /\ UNCHANGED <<scrVars, notJobScr>>

NextJob ==
  \/ ScraperInit
  \/ Enter
  \/ ForTarget
  \/ ForBusinessType
  \/ ScrapeReturns
  \/ StoreBusiness
  \/ SleepBetweenLocations
  \/ LeaveBlock
  \/ JobEnds
  \/ add_scraping_target
  \/ remove_scraping_target

SpecJob == InitJob /\ [][NextJob]_vars

----------------------------------------------------------------------------
\* src/pipeline/scheduler.py, DataPipelineScheduler.start (lines 113-135)
\* and stop (lines 137-140).  The schedule module keeps the registered
\* jobs in one list; run_pending first collects the jobs of the list that
\* are due and then calls them one after the other, and clear empties the
\* list.  A job is the record of its period, its time of day and the
\* function it calls.  start() never returns, so stop() is called by
\* another thread or a signal handler, at any point of start().

\* Line 115: values of pipeline.update_frequency; the last two are not
\* among the names start() knows.
Frequencies == {"daily", "weekly", "hourly", "monthly", ""}

\* Lines 117-125: the job start() registers for a frequency.
ScheduledJob(f) ==
  CASE f = "daily" ->
         [every |-> "day", at |-> <<"02:00">>, do |-> "run_scraping_job"]
    [] f = "weekly" ->
         [every |-> "monday", at |-> <<"02:00">>, do |-> "run_scraping_job"]
    [] f = "hourly" ->
         [every |-> "hour", at |-> <<>>, do |-> "run_scraping_job"]
    [] OTHER ->
         [every |-> "day", at |-> <<"02:00">>, do |-> "run_scraping_job"]

InitSched ==
  /\ GeneratorIdle
  /\ restaurants_data = <<>>
  /\ AnalyzerIdle
  /\ NothingSaved
  /\ NoBusiness
  /\ NoScraper
  /\ NoText
  /\ NoSearch
  /\ NoListings
  /\ NoRetry
  /\ NoDatabase
  /\ NoJob
  /\ frequency \in Frequencies
  /\ sched_jobs = <<>>
  /\ start_pc = "idle"
  /\ job_runs = 0
  /\ polls = 0
  /\ stopped_at = <<>>
  /\ pending = <<>>
  /\ NoReviewCount

\* Lines 113-127: start() is called, reads the frequency and registers
\* the job of its branch.
start ==
  /\ start_pc = "idle"
  /\ sched_jobs' = Append(sched_jobs, ScheduledJob(frequency))
  /\ start_pc' = "registered"
  /\ UNCHANGED <<frequency, job_runs, polls, stopped_at, pending>>
  /\ UNCHANGED notSched

\* Line 130: the initial job is called.
RunInitialJob ==
  /\ start_pc = "registered"
  /\ job_runs' = job_runs + 1
  /\ start_pc' = "initial_job"
  /\ UNCHANGED <<frequency, sched_jobs, polls, stopped_at, pending>>
  /\ UNCHANGED notSched

\* The job called at line 130 or by run_pending ends: run_scraping_job
\* returns (lines 55-88), or raises what its "except Exception" does not
\* catch, which leaves start().
ScrapingJobEnds ==
  /\ start_pc \in {"initial_job", "job"}
  /\ \E ended \in ExcTypes \ {"Exception"} :
       start_pc' = IF ended /= "None" THEN "raised"
                   ELSE IF start_pc = "initial_job" THEN "polling"
                   ELSE "run_pending"
  /\ UNCHANGED <<frequency, sched_jobs, job_runs, polls, stopped_at, pending>>
  /\ UNCHANGED notSched

\* Line 134: run_pending is called and collects, in order, the registered
\* jobs that are due.
RunPending ==
  /\ start_pc = "polling"
  /\ polls < MaxPolls
  /\ \E due \in SUBSET DOMAIN sched_jobs :
       pending' =
         [k \in 1..Cardinality(due) |->
            sched_jobs[CHOOSE j \in due :
                         Cardinality({m \in due : m < j}) = k - 1]]
  /\ polls' = polls + 1
  /\ start_pc' = "run_pending"
  /\ UNCHANGED <<frequency, sched_jobs, job_runs, stopped_at>>
  /\ UNCHANGED notSched

\* Line 134, in run_pending: the next collected job is called.
RunDueJob ==
  /\ start_pc = "run_pending"
  /\ pending /= <<>>
  /\ job_runs' = job_runs + 1
  /\ pending' = Tail(pending)
  /\ start_pc' = "job"
  /\ UNCHANGED <<frequency, sched_jobs, polls, stopped_at>>
  /\ UNCHANGED notSched

\* Line 135: run_pending has returned and time.sleep(60) begins.
Sleep ==
  /\ start_pc = "run_pending"
  /\ pending = <<>>
  /\ start_pc' = "sleeping"
  /\ UNCHANGED <<frequency, sched_jobs, job_runs, polls, stopped_at, pending>>
  /\ UNCHANGED notSched

\* Line 135: the minute is over and the loop turns, or the sleep is
\* interrupted, which leaves start().
WakeUp ==
  /\ start_pc = "sleeping"
  /\ \E sleep_exc \in ExcTypes \ {"Exception"} :
       start_pc' = IF sleep_exc = "None" THEN "polling" ELSE "raised"
  /\ UNCHANGED <<frequency, sched_jobs, job_runs, polls, stopped_at, pending>>
  /\ UNCHANGED notSched

\* Lines 137-140: stop(), called before start() or at any point of it,
\* any number of times; schedule.clear() removes every registered job.
\* The jobs run_pending has collected are in a list of its own.
stop ==
  /\ sched_jobs' = <<>>
  /\ stopped_at' = <<polls>>
  /\ UNCHANGED <<frequency, start_pc, job_runs, polls, pending>>
  /\ UNCHANGED notSched

NextSched ==
  \/ start
  \/ RunInitialJob
  \/ ScrapingJobEnds
  \/ RunPending
  \/ RunDueJob
  \/ Sleep
  \/ WakeUp
  \/ stop

SpecSched == InitSched /\ [][NextSched]_vars

(***************************************************************************)
(* The claims.                                                             *)
(***************************************************************************)
Records == 1..Len(restaurants)

\* The row of the run's cuisine table a record's cuisine_type names.
CuisineRow(name) ==
  CHOOSE c \in {cuisine_types[k] : k \in 1..Len(cuisine_types)} : c.name = name

\* The row of the run's neighborhood table a record's neighborhood names.
NeighborhoodRow(name) ==
  CHOOSE n \in {neighborhoods[k] : k \in 1..Len(neighborhoods)} : n.name = name

\* Every name a template and a name part format to.
FormattedNamesOf(templates, parts) ==
  {templates[t] \o parts[p] : t \in 1..Len(templates), p \in 1..Len(parts)}

\* Every formatted name followed by the identifier k.
SuffixedNamesOf(templates, parts, k) ==
  {b \o " " \o ToString(k) : b \in FormattedNamesOf(templates, parts)}

\* The names of the templates and name parts of lines 73-109, computed once.
BuiltinFormattedNames ==
  FormattedNamesOf(builtin_name_templates, builtin_name_parts)
BuiltinSuffixedNames ==
  [k \in 2..MaxRecords |->
     SuffixedNamesOf(builtin_name_templates, builtin_name_parts, k)]

BuiltinVocabulary ==
  name_templates = builtin_name_templates /\ name_parts = builtin_name_parts

\* The names of the run's templates and name parts.
FormattedNames ==
  IF BuiltinVocabulary
  THEN BuiltinFormattedNames
  ELSE FormattedNamesOf(name_templates, name_parts)

SuffixedNames(k) ==
  IF BuiltinVocabulary /\ k \in 2..MaxRecords
  THEN BuiltinSuffixedNames[k]
  ELSE SuffixedNamesOf(name_templates, name_parts, k)

\* Every text a phrase bank can produce.
BankTexts(bank) ==
  {Phrase(bank[j], review_keywords[m]) :
     j \in 1..Len(bank), m \in 1..Len(review_keywords)}

PositiveTexts == BankTexts(positive_phrases)
NeutralTexts == BankTexts(neutral_phrases)
NegativeTexts == BankTexts(negative_phrases)
BankedTexts == PositiveTexts \cup NeutralTexts \cup NegativeTexts

\* No text comes from two banks.
BanksDisjoint ==
  /\ PositiveTexts \cap NeutralTexts = {}
  /\ PositiveTexts \cap NegativeTexts = {}
  /\ NeutralTexts \cap NegativeTexts = {}

\* C1: when a generation run returns, the number of records equals the sum
\* of the declared counts of the run's neighborhoods, whatever was drawn;
\* the built-in counts sum to 500.
C1_LengthIsDeclaredTotal ==
  /\ DeclaredTotal(builtin_neighborhoods) = 500
  /\ pc = "returned" => Len(restaurants) = DeclaredTotal(neighborhoods)

C1_Witness ==
  /\ pc = "returned"
  /\ Len(neighborhoods) = 2
  /\ neighborhoods[1].count = 1
  /\ neighborhoods[2].count = 2
  /\ Len(restaurants) = 3

\* C2: analyze_restaurants on an empty list does not raise and returns a
\* report whose total_restaurants and total_reviews are 0, that has an
\* average_rating, and whose sentiment_analysis is {}.
C2_EmptyInputZeroReport ==
  analyzed = <<>> =>
    /\ an_pc # "raised"
    /\ an_pc = "returned" =>
         /\ {"total_restaurants", "average_rating", "total_reviews",
             "sentiment_analysis"} \subseteq DOMAIN report
         /\ report.total_restaurants = 0
         /\ report.total_reviews = 0
         /\ report.sentiment_analysis = EmptyDict

C6_PriceInCuisineTiers ==
  \A k \in Records :
    LET dist == CuisineRow(restaurants[k].cuisine_type).price_dist
    IN  restaurants[k].price_range \in {dist[t][1] : t \in 1..Len(dist)}

\* A record of the two-tier cuisine with its last tier, or one of a
\* four-tier cuisine with the fourth.
C6_Witness ==
  \/ \E k \in Records :
       restaurants[k].cuisine_type = "Fast Food" /\ restaurants[k].price_range = "$$"
  \/ \E k \in Records :
       restaurants[k].cuisine_type = "International" /\ restaurants[k].price_range = "$$$$"

\* C7: the rating of every record lies in the rating range of the cuisine
\* its cuisine_type names, bounds included.
C7_RatingInCuisineRange ==
  \A k \in Records :
    LET range == CuisineRow(restaurants[k].cuisine_type).rating_range
    IN  range[1] <= restaurants[k].rating /\ restaurants[k].rating <= range[2]

\* Records at both ends of the narrowest and of the lowest range.
C7_Witness ==
  /\ \E k \in Records :
       restaurants[k].cuisine_type = "Fast Food" /\ restaurants[k].rating = 44
  /\ \E k \in Records :
       restaurants[k].cuisine_type = "French" /\ restaurants[k].rating = 40

\* C8: the coordinates of every record lie in the latitude and longitude
\* ranges of the neighborhood its neighborhood field names, bounds included.
C8_CoordinatesInNeighborhood ==
  \A k \in Records :
    LET row == NeighborhoodRow(restaurants[k].neighborhood)
        at == restaurants[k].coordinates
    IN  /\ row.lat_range[1] * 10000 <= at.lat
        /\ at.lat <= row.lat_range[2] * 10000
        /\ row.lng_range[1] * 10000 <= at.lng
        /\ at.lng <= row.lng_range[2] * 10000

\* A record of the second neighborhood on the lower latitude bound and at the
\* highest longitude a draw gives.
C8_Witness ==
  \E k \in Records :
    /\ restaurants[k].neighborhood = "Piantini"
    /\ restaurants[k].coordinates.lat = 18450000
    /\ restaurants[k].coordinates.lng = -69940001

\* C9: the features of every record are between 2 and 6 entries of the
\* feature vocabulary, none of them twice.
C9_FeaturesDistinct ==
  \A k \in Records :
    LET fs == restaurants[k].features
    IN  /\ 2 <= Len(fs) /\ Len(fs) <= 6
        /\ \A m \in 1..Len(fs) : \E v \in 1..Len(all_features) : fs[m] = all_features[v]
        /\ \A m \in 1..Len(fs) : \A n \in 1..Len(fs) : m # n => fs[m] # fs[n]

\* A record with six features, and one with two.
C9_Witness ==
  /\ \E k \in Records : Len(restaurants[k].features) = 6
  /\ \E k \in Records : Len(restaurants[k].features) = 2

\* C10: every record has between 5 and 15 reviews, and the rating of each
\* review lies in the range of the bank its text comes from: 4..5 for the
\* positive bank, 3..4 for the neutral one, 1..3 for the negative one.
C10_ReviewsInTierRange ==
  /\ BanksDisjoint
  /\ \A k \in Records :
       LET rs == restaurants[k].reviews
       IN  /\ 5 <= Len(rs) /\ Len(rs) <= 15
           /\ \A m \in 1..Len(rs) :
                /\ rs[m].rating \in 1..5
                /\ rs[m].text \in BankedTexts
                /\ rs[m].text \in PositiveTexts => rs[m].rating \in 4..5
                /\ rs[m].text \in NeutralTexts => rs[m].rating \in 3..4
                /\ rs[m].text \in NegativeTexts => rs[m].rating \in 1..3

\* A record with fifteen reviews, among them one of each bank at each end
\* of its range, and a record with five reviews.
C10_Witness ==
  /\ \E k \in Records : Len(restaurants[k].reviews) = 5
  /\ \E k \in Records :
       LET rs == restaurants[k].reviews
           Has(texts, rating) ==
             \E m \in 1..Len(rs) : rs[m].text \in texts /\ rs[m].rating = rating
       IN  /\ Len(rs) = 15
           /\ Has(PositiveTexts, 4) /\ Has(PositiveTexts, 5)
           /\ Has(NeutralTexts, 3) /\ Has(NeutralTexts, 4)
           /\ Has(NegativeTexts, 1) /\ Has(NegativeTexts, 3)

\* C11, as claimed: a review of a record has a rating of 4 or 5 only if its
\* text comes from the positive bank.
C11_HighRatingOnlyPositive ==
  \A k \in Records : \A m \in 1..Len(restaurants[k].reviews) :
    restaurants[k].reviews[m].rating \in 4..5 =>
      restaurants[k].reviews[m].text \in PositiveTexts

\* C11, amended: a review has a rating of 5 only if its text comes from the
\* positive bank, and a rating of 4 only if it comes from the positive or
\* the neutral bank; no review of the negative bank has a rating of 4 or 5.
C11_HighRatingNeverNegative ==
  /\ BanksDisjoint
  /\ \A k \in Records : \A m \in 1..Len(restaurants[k].reviews) :
       LET review == restaurants[k].reviews[m]
       IN  /\ review.rating = 5 => review.text \in PositiveTexts
           /\ review.rating = 4 => review.text \in PositiveTexts \cup NeutralTexts
           /\ review.text \in NegativeTexts => review.rating \notin 4..5

\* A record with a review of the neutral bank rated 4, one of the positive
\* bank rated 5 and one of the negative bank rated 3.
C11_Witness ==
  \E k \in Records :
    /\ \E m \in 1..Len(restaurants[k].reviews) :
         /\ restaurants[k].reviews[m].text \in NeutralTexts
         /\ restaurants[k].reviews[m].rating = 4
    /\ \E m \in 1..Len(restaurants[k].reviews) :
         /\ restaurants[k].reviews[m].text \in PositiveTexts
         /\ restaurants[k].reviews[m].rating = 5
    /\ \E m \in 1..Len(restaurants[k].reviews) :
         /\ restaurants[k].reviews[m].text \in NegativeTexts
         /\ restaurants[k].reviews[m].rating = 3

\* C12, as claimed: with base = 50 + (rating - 3.0) * 200, the review_count
\* of every record is an integer from max(10, base - 50) to base + 100, and
\* so at least 10.
C12_ReviewCountInRange ==
  \A k \in Records :
    LET base == 50 + (restaurants[k].rating - 30) * 20
        low == IF base - 50 > 10 THEN base - 50 ELSE 10
    IN  /\ low <= restaurants[k].review_count
        /\ restaurants[k].review_count <= base + 100
        /\ restaurants[k].review_count >= 10

\* The reviews of the analyzed list: <<k, m>> is the m-th review of the
\* k-th restaurant.  The features likewise.
ReviewSlots ==
  UNION {{<<k, m>> : m \in 1..Len(analyzed[k].reviews)} : k \in 1..Len(analyzed)}

FeatureSlots ==
  UNION {{<<k, m>> : m \in 1..(IF "features" \in DOMAIN analyzed[k]
                               THEN Len(analyzed[k].features) ELSE 0)} :
           k \in 1..Len(analyzed)}

ReviewAt(slot) == analyzed[slot[1]].reviews[slot[2]]
FeatureAt(slot) == analyzed[slot[1]].features[slot[2]]
AnalyzedFeatures == {FeatureAt(slot) : slot \in FeatureSlots}

\* The slot s comes before the slot t in the order the analyzer reads them.
Before(s, t) == s[1] < t[1] \/ (s[1] = t[1] /\ s[2] < t[2])

\* The number of occurrences of each feature of the input, and the slot of
\* its first occurrence.
Occurrences ==
  [f \in AnalyzedFeatures |->
     Cardinality({slot \in FeatureSlots : FeatureAt(slot) = f})]

FirstSlot ==
  [f \in AnalyzedFeatures |->
     CHOOSE slot \in FeatureSlots :
       /\ FeatureAt(slot) = f
       /\ \A t \in FeatureSlots : FeatureAt(t) = f => ~Before(t, slot)]

\* C13, as claimed: on a non-empty list the call does not raise, and
\* average_rating is the sum of the ratings of all the restaurants divided
\* by their number.
C13_AverageOverAll ==
  analyzed # <<>> =>
    /\ an_pc # "raised"
    /\ an_pc = "returned" =>
         LET ratings == [k \in 1..Len(analyzed) |-> analyzed[k].rating]
             mean == report.average_rating
         IN  /\ mean[2] # 0
             /\ mean[1] * Len(ratings) = SumSeq(ratings, Len(ratings)) * mean[2]

\* C14: total_reviews is the number of reviews in the review lists of the
\* input, and the review_count fields have no part in it: the call on the
\* same list with every review_count set to 0 reports the same total.
C14_TotalReviewsIsListLengths ==
  (an_pc = "returned" /\ analyzed # <<>>) =>
    /\ report.total_reviews = Cardinality(ReviewSlots)
    /\ analyze_restaurants(
         [k \in 1..Len(analyzed) |-> [analyzed[k] EXCEPT !.review_count = 0]]
       ).total_reviews = report.total_reviews

\* A report on restaurants of which one has no review and another fifteen,
\* whose review_count fields sum to another number.
C14_Witness ==
  /\ an_pc = "returned"
  /\ \E j \in 1..Len(analyzed) : analyzed[j].reviews = <<>>
  /\ \E j \in 1..Len(analyzed) : Len(analyzed[j].reviews) = 15
  /\ report.total_reviews > 15
  /\ report.total_reviews # TotalReviews_CountField(analyzed)

\* C15: positive_reviews is the number of reviews rated 4 or more,
\* negative_reviews the number rated 2 or less, each percentage that number
\* times 100 over the number of reviews; with no review at all the summary
\* is the empty dict.
C15_SentimentCounts ==
  (an_pc = "returned" /\ analyzed # <<>>) =>
    LET summary == report.sentiment_analysis
        total == Cardinality(ReviewSlots)
        positive == Cardinality({slot \in ReviewSlots : ReviewAt(slot).rating >= 4})
        negative == Cardinality({slot \in ReviewSlots : ReviewAt(slot).rating <= 2})
    IN  IF total = 0
        THEN DOMAIN summary = {}
        ELSE /\ summary.positive_reviews = positive
             /\ summary.negative_reviews = negative
             /\ summary.positive_percentage[2] # 0
             /\ summary.negative_percentage[2] # 0
             /\ summary.positive_percentage[1] * total
                  = positive * 100 * summary.positive_percentage[2]
             /\ summary.negative_percentage[1] * total
                  = negative * 100 * summary.negative_percentage[2]

\* A report on reviews of which some are rated 4 or more, some 2 or less
\* and some 3.
C15_Witness ==
  /\ an_pc = "returned"
  /\ analyzed # <<>>
  /\ \E slot \in ReviewSlots : ReviewAt(slot).rating = 3
  /\ \E slot \in ReviewSlots : ReviewAt(slot).rating = 2
  /\ report.sentiment_analysis.positive_reviews > 0
  /\ report.sentiment_analysis.negative_reviews > 0

\* C16: feature_distribution has at most 15 entries, all the features of
\* the input when these are at most 15; each entry carries the number of
\* occurrences of its feature; an entry outranks every later entry and every
\* feature left out: it is more frequent, or as frequent and encountered
\* first in the input.
C16_TopFifteenFeatures ==
  (an_pc = "returned" /\ analyzed # <<>>) =>
    \A count \in {Occurrences} : \A first \in {FirstSlot} :
    \A features \in {AnalyzedFeatures} :
    LET dist == report.feature_distribution
        kept == {dist[j][1] : j \in 1..Len(dist)}
        distinct == Cardinality(features)
        Outranks(f, g) ==
          \/ count[f] > count[g]
          \/ count[f] = count[g] /\ Before(first[f], first[g])
    IN  /\ Len(dist) <= 15
        /\ Len(dist) = IF distinct < 15 THEN distinct ELSE 15
        /\ kept \subseteq features
        /\ \A j \in 1..Len(dist) : dist[j][2] = count[dist[j][1]]
        /\ \A j \in 1..Len(dist) : \A n \in (j + 1)..Len(dist) :
             Outranks(dist[j][1], dist[n][1])
        /\ \A j \in 1..Len(dist) : \A g \in features \ kept :
             Outranks(dist[j][1], g)

\* A report on more than 15 distinct features in which a feature left out
\* is as frequent as the last one kept, and the first one kept more
\* frequent.
C16_Witness ==
  /\ an_pc = "returned"
  /\ analyzed # <<>>
  /\ Cardinality(AnalyzedFeatures) > 15
  /\ LET dist == report.feature_distribution
         count == Occurrences
     IN  /\ Len(dist) = 15
         /\ dist[1][2] > dist[15][2]
         /\ \E g \in AnalyzedFeatures :
              /\ \A j \in 1..15 : dist[j][1] # g
              /\ count[g] = dist[15][2]

\* C17: a call of analyze_restaurants changes neither the list it is called
\* on, nor any record or review list in it, nor the stored restaurants_data.
C17_InputUnchanged ==
  [][analyzed' = analyzed /\ restaurants_data' = restaurants_data]_vars

\* A call has returned a report on stored records that have reviews.
C17_Witness ==
  /\ an_pc = "returned"
  /\ restaurants_data = analyzed
  /\ Len(analyzed) > 1
  /\ analyzed[1].reviews # <<>>
  /\ analyzed[2].reviews # <<>>

\* Two Python values have the same type, and dicts the same keys in the same
\* order and lists the same length, all the way down.
RECURSIVE SameShape(_, _)
SameShape(a, b) ==
  /\ a.type = b.type
  /\ a.type = "dict" =>
       /\ a.keys = b.keys
       /\ \A k \in DOMAIN a.values : SameShape(a.values[k], b.values[k])
  /\ a.type = "list" =>
       /\ Len(a.items) = Len(b.items)
       /\ \A k \in DOMAIN a.items : SameShape(a.items[k], b.items[k])

\* C18: once the saved document is parsed back, its restaurant list has one
\* record per generated record, each with the keys and the value types of
\* the generated record; a website of None is null in the file and None
\* again after parsing.
C18_RoundTripKeepsShape ==
  data # <<>> =>
    \A written \in {Get(output_file, "restaurants")} :
    \A loaded \in {Get(data, "restaurants")} :
      /\ loaded.type = "list"
      /\ Len(loaded.items) = Len(analyzed)
      /\ \A k \in DOMAIN analyzed :
           /\ SameShape(PyRestaurant(analyzed[k]), loaded.items[k])
           /\ analyzed[k].website = <<>> =>
                /\ Get(written.items[k], "website").kind = "null"
                /\ Get(loaded.items[k], "website").type = "NoneType"
           /\ analyzed[k].website # <<>> =>
                Get(loaded.items[k], "website") = PyStr(analyzed[k].website[1])

\* A document was parsed back that holds a record without a website, a
\* record with one, and a record whose rating is a whole number.
C18_Witness ==
  /\ data # <<>>
  /\ \E k \in DOMAIN analyzed : analyzed[k].website = <<>>
  /\ \E k \in DOMAIN analyzed : analyzed[k].website # <<>>
  /\ \E k \in DOMAIN analyzed :
       /\ analyzed[k].rating % 10 = 0
       /\ Get(Get(data, "restaurants").items[k], "rating").type = "float"


\* The arguments of tests/test_scraper.py lines 85-91 and 101-107.
RequiredOnly == {"name", "address", "business_type", "location", "reviews"}

\* C19: a call that gives only name, address, business_type, location and
\* reviews constructs a BusinessInfo whose phone, website, rating,
\* review_count and coordinates are None.
C19_OptionalFieldsDefaultToNone ==
  (business_pc \in {"constructed", "raised"}
     /\ DOMAIN business_kwargs = RequiredOnly) =>
    /\ business_pc = "constructed"
    /\ \A f \in OptionalFields : business[f] = <<>>


\* C20: the step that leaves the with-block, normally or through an
\* exception, calls quit() on the driver exactly once, and whenever the
\* block has been left the driver's browser is closed.
C20_ExitQuitsDriverOnce ==
  /\ [](scraper_pc = "left" => session = "closed")
  /\ [][(scraper_pc = "entered" /\ scraper_pc' = "left") =>
          (quit_calls' = quit_calls + 1 /\ session' = "closed")]_vars

\* A block in which the scraper was used was left through an exception,
\* and quit() has been called once.
C20_Witness ==
  /\ scraper_pc = "left"
  /\ exc_type = "Exception"
  /\ scrapes > 0
  /\ quit_calls = 1
  /\ session = "closed"


\* C21: the text clean_text returns holds no two consecutive spaces.
C21_NoDoubleSpace ==
  clean_pc = "returned" =>
    \A k \in 1..(Len(cleaned) - 1) : ~(cleaned[k] = " " /\ cleaned[k + 1] = " ")


\* C22: the name of the k-th record of a run (k >= 2, counted across the
\* neighborhoods) is a formatted name followed by a space and k; while a run
\* generates, restaurant_id is one more than the number of records made; a
\* step to the next neighborhood leaves restaurant_id as it is; a new run
\* starts with restaurant_id 1 and no record.
C22_SuffixIsRunningIndex ==
  /\ [](/\ \A k \in Records :
             k >= 2 => restaurants[k].name \in SuffixedNames(k)
        /\ pc = "generating" => restaurant_id = Len(restaurants) + 1)
  /\ [][(pc' = pc /\ nb' # nb) => restaurant_id' = restaurant_id]_vars
  /\ [][(pc = "returned" /\ pc' = "generating") =>
          (restaurant_id' = 1 /\ restaurants' = <<>>)]_vars

\* A run after the first one has made its second record in the second
\* neighborhood, and the record's name ends in " 2".
C22_Witness ==
  /\ restaurants_data # <<>>
  /\ pc = "generating"
  /\ nb = 2
  /\ Len(restaurants) = 2
  /\ restaurants[1].neighborhood # restaurants[2].neighborhood
  /\ restaurants[2].name \in SuffixedNames(2)
  /\ restaurant_id = 3


\* The records of the list that name the neighborhood of row n.
RecordsOf(n) == {k \in Records : restaurants[k].neighborhood = neighborhoods[n].name}

\* The rows of the run's tables a record names.
NeighborhoodsNamed(k) ==
  {n \in 1..Len(neighborhoods) : neighborhoods[n].name = restaurants[k].neighborhood}
CuisinesNamed(k) ==
  {c \in 1..Len(cuisine_types) : cuisine_types[c].name = restaurants[k].cuisine_type}

\* C23: every record names exactly one row of the neighborhood table and
\* exactly one row of the cuisine table; the records are grouped by
\* neighborhood in table order; no neighborhood has more records than its
\* declared count, and in the list a run returns each neighborhood has
\* exactly its declared count.
C23_RecordsFollowNeighborhoodTable ==
  /\ \A k \in Records :
       /\ Cardinality(NeighborhoodsNamed(k)) = 1
       /\ Cardinality(CuisinesNamed(k)) = 1
  /\ \A j \in Records : \A k \in Records :
       j < k => \A a \in NeighborhoodsNamed(j) : \A b \in NeighborhoodsNamed(k) :
                  a <= b
  /\ \A n \in 1..Len(neighborhoods) :
       /\ Cardinality(RecordsOf(n)) <= neighborhoods[n].count
       /\ pc = "returned" => Cardinality(RecordsOf(n)) = neighborhoods[n].count

\* A run returned records of two neighborhoods, two of them of one
\* neighborhood, and records of different cuisines.
C23_Witness ==
  /\ pc = "returned"
  /\ Len(neighborhoods) = 2
  /\ \E n \in 1..2 : Cardinality(RecordsOf(n)) = 2
  /\ \E n \in 1..2 : Cardinality(RecordsOf(n)) = 1
  /\ \E j \in Records : \E k \in Records :
       restaurants[j].cuisine_type # restaurants[k].cuisine_type


\* The stored records whose location contains the location asked for,
\* whatever the case of the letters.
Matching ==
  SelectSeq(restaurants_data,
            LAMBDA r : Contains(lower(location), lower(LocationChars(r.location))))

\* C24 as stated, a negative max_results read as a request for no record:
\* search_restaurants returns no more than max_results records, and they are
\* the first min(max_results, m) of the m matching stored records, in the
\* stored order.
C24_FirstMatchesUpToMax ==
  search_pc = "returned" =>
    \A m \in {Len(Matching)} :
    \A wanted \in {IF max_results < 0 THEN 0 ELSE max_results} :
      /\ Len(found) <= wanted
      /\ Len(found) = IF wanted < m THEN wanted ELSE m
      /\ \A k \in 1..Len(found) : found[k] = Matching[k]


\* C25: every call of search_businesses returns, with at most max_results
\* businesses.
C25_SearchTerminates ==
  /\ [](sb_pc = "returned" => Len(sb_result) <= sb_max_results)
  /\ <>(sb_pc = "returned")

\* C26: no listing of the page is the source of two of the businesses of
\* one call.
C26_ListingContributesOnce ==
  \A j \in 1..Len(businesses) : \A k \in 1..Len(businesses) :
    j # k => businesses[j] # businesses[k]


\* The calls of func that raised.
FailedCalls == {k \in 1..Len(calls) : calls[k][1] = "raises"}

\* C27: func is called at most max_retries times; a call is made only
\* after every earlier call raised; the k-th sleep lasts base_delay times 2
\* to the power k - 1; the value returned is that of the one call that
\* returned, after one sleep for every failed call; the exception raised is
\* that of call number max_retries, after one sleep for every call but
\* that one; None is returned only for max_retries = 0, without a call.
C27_RetryWithBackoff ==
  /\ Len(calls) <= max_retries
  /\ \A k \in 1..(Len(calls) - 1) : k \in FailedCalls
  /\ \A k \in 1..Len(sleeps) : sleeps[k] = base_delay * Pow2(k - 1)
  /\ rt_pc = "called" => Len(sleeps) = Len(calls) /\ FailedCalls = 1..Len(calls)
  /\ (rt_pc = "returned" /\ max_retries > 0) =>
       /\ calls[Len(calls)][1] = "returns"
       /\ rt_result = <<calls[Len(calls)][2]>>
       /\ Len(sleeps) = Len(calls) - 1
  /\ (rt_pc = "returned" /\ max_retries = 0) => rt_result = <<>> /\ calls = <<>>
  /\ rt_pc = "raised" =>
       /\ Len(calls) = max_retries
       /\ FailedCalls = 1..max_retries
       /\ rt_result = <<calls[max_retries][2]>>
       /\ Len(sleeps) = max_retries - 1

\* Three attempts failed with different exceptions: the last one's was
\* raised, after sleeps of base_delay and twice base_delay.
C27_Witness ==
  /\ rt_pc = "raised"
  /\ max_retries = 3
  /\ calls[2][2] # calls[3][2]
  /\ rt_result = <<calls[3][2]>>
  /\ sleeps = <<base_delay, 2 * base_delay>>

\* The key store_business looks a business up by.
SameKey(row, b) ==
  /\ row.name = b["name"]
  /\ row.address = b["address"]
  /\ row.location = b["location"]

\* C28: a store_business call the database answers, made for a scraped
\* business whose (name, address, location) is already in the table,
\* returns the id of that row, leaves the row holding the phone, website,
\* rating, review_count and coordinates of the business, and adds no row;
\* made for a new key it adds one row and returns its id; and no two rows
\* of the table share a key.
C28_StoreUpdatesOrInserts ==
  /\ (store_pc \in {"returned", "raised"} /\ store_exc /= "SQLAlchemyError")
       => \A b \in {business_data[1]} :
            /\ store_pc = "returned"
            /\ business_id /= <<>>
            /\ business_id[1] \in DOMAIN businesses_table
            /\ \A row \in {businesses_table[business_id[1]]} :
                 /\ row.id = business_id[1]
                 /\ SameKey(row, b)
                 /\ row.phone = b["phone"]
                 /\ row.website = b["website"]
                 /\ row.rating = b["rating"]
                 /\ row.review_count = b["review_count"]
                 /\ row.coordinates = b["coordinates"]
            /\ existing_business /= <<>>
                 => business_id[1] = existing_business[1]
            /\ existing_business = <<>>
                 => business_id[1] = Len(businesses_table)
  /\ \A j, k \in DOMAIN businesses_table :
       (/\ businesses_table[j].name = businesses_table[k].name
        /\ businesses_table[j].address = businesses_table[k].address
        /\ businesses_table[j].location = businesses_table[k].location)
         => j = k

\* Every (location, business type) pair of the first n targets, in the
\* order of the two loops.
RECURSIVE PairsOfTargets(_, _)
PairsOfTargets(ts, n) ==
  IF n = 0 THEN <<>>
  ELSE PairsOfTargets(ts, n - 1)
         \o [k \in 1..Len(ts[n].business_types) |->
               <<ts[n].location, ts[n].business_types[k]>>]

\* C29: in run_scraping_job a pair in which scraping or storing raised an
\* Exception is followed by the rest of the loops, so that a job whose
\* block ended normally has attempted every pair of every target, in
\* order; no Exception reaches the caller: a job that ends by raising
\* raises KeyboardInterrupt or SystemExit, which "except Exception" is not
\* written for; and when the job has ended no driver is left open.
C29_JobSurvivesPairErrors ==
  /\ [][(business_type' = business_type + 1
          /\ pair_outcome' \in {"store_raises", "scrape_raises",
                                "process_raises"})
          => (job_pc' = "for_type" /\ block_exc' = "None")]_vars
  /\ [](job_pc = "block_done"
          => attempted = PairsOfTargets(loop_targets, Len(loop_targets)))
  /\ [](job_pc = "raised" => job_exc \in {"KeyboardInterrupt", "SystemExit"})
  /\ [](job_pc \in {"returned", "raised"} => session /= "open")

\* C30: start() adds exactly one job to the registered jobs, the job of
\* the configured frequency, and the daily job for a frequency it does not
\* know; the initial scraping job has run before the first poll; and once
\* stop() has been called on the started scheduler, and has emptied the
\* registered jobs, the polling loop starts no scraping job.
C30_StartRegistersOneJob ==
  /\ [][(start_pc = "idle" /\ start_pc' # "idle")
          => /\ Len(sched_jobs') = Len(sched_jobs) + 1
             /\ \A job \in {sched_jobs'[Len(sched_jobs')]} :
                  /\ job.do = "run_scraping_job"
                  /\ frequency = "weekly"
                       => (job.every = "monday" /\ job.at = <<"02:00">>)
                  /\ frequency = "hourly"
                       => (job.every = "hour" /\ job.at = <<>>)
                  /\ frequency \notin {"weekly", "hourly"}
                       => (job.every = "day" /\ job.at = <<"02:00">>)]_vars
  /\ [](start_pc = "registered" => (job_runs = 0 /\ polls = 0))
  /\ [](polls > 0 => job_runs >= 1)
  /\ [][(polls' # polls /\ polls = 0) => job_runs >= 1]_vars
  /\ [][(stopped_at # <<>> /\ sched_jobs = <<>>
           /\ start_pc \notin {"idle", "registered"})
          => job_runs' = job_runs]_vars

====
